---- MODULE Spec2Model ----
(***************************************************************************)
(* A model of the Borsht game session engine                               *)
(* (src/app/games/borsht/game_manager.py, src/app/games/abstract_game.py). *)
(*                                                                         *)
(* The session is a state machine.  A process_move call runs until it      *)
(* returns or until it suspends on a player request (_request_to_player);  *)
(* a response or a timeout resumes it.  Coroutines are kept as stacks of   *)
(* frames, one stack per asyncio task.  Cards are numbers (their uid), an  *)
(* index into CardTable.  random.* is a nondeterministic choice.           *)
(***************************************************************************)
EXTENDS Integers, Sequences, FiniteSets, TLC

VARIABLES
    players,               \* roster: the keys of self.players, in order
    deck,                  \* self.deck
    market,                \* self.market
    discard_pile,          \* self.discard_pile
    player_hands,          \* self.player_hands
    player_borsht,         \* self.player_borsht
    player_recipes,        \* self.player_recipes
    moves_count,           \* self.moves_count
    turn_state,            \* self.turn_state
    current_player_index,  \* self.current_player_index (0-based)
    is_game_over,          \* self.is_game_over
    winner,                \* self.winner (None = 0)
    first_finisher,        \* self.first_finisher (None = 0)
    pending_shkvarkas,     \* self.pending_shkvarkas
    active_shkvarkas,      \* self.active_shkvarkas
    recipes_revealed,      \* self.recipes_revealed
    game_settings,         \* self.game_settings
    pending_requests,      \* self.pending_requests (the futures, by request id)
    sent_requests,         \* self.sent_requests (the messages, by request id)
    game_messages,         \* self.game_messages (the types of the messages)
    tasks,                 \* the suspended coroutines (call stacks)
    event,                 \* the call, response or timeout of the last step
    fn_in,                 \* input of the pure function under check
    fn_out                 \* its result

vars == <<players, deck, market, discard_pile, player_hands, player_borsht,
          player_recipes, moves_count, turn_state, current_player_index,
          is_game_over, winner, first_finisher, pending_shkvarkas,
          active_shkvarkas, recipes_revealed, game_settings, pending_requests,
          sent_requests, game_messages, tasks, event, fn_in, fn_out>>

(***************************************************************************)
(* Bounds of the model.                                                    *)
(***************************************************************************)
\* the moves the engine accepts for processing in one behaviour
MaxMoves == 2
\* the longest list of uids of an exchange payload
MaxListed == 2
\* the most cards asked of _get_cards_from_deck in one call
MaxDrawn == 3

\* _determine_winner is applied to scores, hand costs and move counts up to
MaxScore == 1
MaxHandCost == 1
MaxCount == 1

None == 0

(***************************************************************************)
(* Sequence helpers.                                                       *)
(***************************************************************************)
Range(q) == {q[i] : i \in 1..Len(q)}

RemoveAt(q, i) == SubSeq(q, 1, i - 1) \o SubSeq(q, i + 1, Len(q))

\* the position of the first element of q equal to x, 0 when absent
IndexOf(q, x) ==
    IF x \in Range(q) THEN CHOOSE i \in 1..Len(q) : q[i] = x /\ \A j \in 1..(i - 1) : q[j] # x
    ELSE 0

\* all orders of the elements of q
RECURSIVE Perms(_)
Perms(q) ==
    IF Len(q) <= 1 THEN {q}
    ELSE UNION {{<<q[i]>> \o r : r \in Perms(RemoveAt(q, i))} : i \in 1..Len(q)}

\* the sets of k positions of a sequence of length n
Subsets(S, k) == {T \in SUBSET S : Cardinality(T) = k}

\* the list is returned as it was offered: the selected cards stay in it
KeepPositions(q, I) == q

\* q without the positions in I, and the elements at the positions in I
\* taken from the highest position down
RECURSIVE DropPositions(_, _)
DropPositions(q, I) ==
    IF q = <<>> THEN <<>>
    ELSE DropPositions(SubSeq(q, 1, Len(q) - 1), I) \o
         (IF Len(q) \in I THEN <<>> ELSE <<q[Len(q)]>>)

RECURSIVE TakeDescending(_, _)
TakeDescending(q, I) ==
    IF q = <<>> THEN <<>>
    ELSE (IF Len(q) \in I THEN <<q[Len(q)]>> ELSE <<>>) \o
         TakeDescending(SubSeq(q, 1, Len(q) - 1), I)

(***************************************************************************)
(* Cards (game_cards.py).  A card is its uid; CardTable gives its fields.  *)
(* The table is a small selection of base_cards and of the shkvarka lists. *)
(***************************************************************************)
Card(id, type, cost, points, effect, subtype) ==
    [id |-> id, type |-> type, cost |-> cost, points |-> points,
     effect |-> effect, subtype |-> subtype]

CardTable ==
    << Card("onion", "regular", 1, 1, "none", "none"),                      \* 1
       Card("onion", "regular", 1, 1, "none", "none"),                      \* 2
       Card("onion", "regular", 1, 1, "none", "none"),                      \* 3
       Card("carrot", "regular", 2, 0, "none", "none"),                     \* 4
       Card("potato", "regular", 1, 0, "none", "none"),                     \* 5
       Card("beet", "regular", 2, 1, "none", "none"),                       \* 6
       Card("salt", "extra", 1, 2, "none", "none"),                         \* 7
       Card("olive_oil", "special", 3, 0, "look_top_5", "none"),            \* 8
       Card("paprika", "special", 4, 0, "refresh_market", "none"),          \* 9
       Card("ginger", "special", 3, 0, "take_market", "none"),              \* 10
       Card("chili_pepper", "special", 4, 0, "steal_or_discard", "none"),   \* 11
       Card("sour_cream", "special", 4, 0, "defense", "none"),              \* 12
       Card("zgorila_zasmazhka", "shkvarka", 0, 0, "none", "disposable"),   \* 13
       Card("postachalnyk_pereplutav", "shkvarka", 0, 0, "none", "disposable"), \* 14
       Card("garmyder_na_kuhni", "shkvarka", 0, 0, "none", "disposable"),   \* 15
       Card("carrot", "regular", 2, 0, "none", "none"),                     \* 16
       Card("potato", "regular", 1, 0, "none", "none"),                     \* 17
       Card("beet", "regular", 2, 1, "none", "none"),                       \* 18
       Card("porvalas_torbynka", "shkvarka", 0, 0, "none", "permanent"),    \* 19
       Card("sanepidemstancia", "shkvarka", 0, 0, "none", "permanent"),     \* 20
       Card("molochka_skysla", "shkvarka", 0, 0, "none", "permanent"),      \* 21
       Card("defolt_crisa", "shkvarka", 0, 0, "none", "permanent"),         \* 22
       Card("kayenskyi_perec", "shkvarka", 0, 0, "none", "permanent"),      \* 23
       Card("peresolyly", "shkvarka", 0, 0, "none", "permanent"),           \* 24
       Card("sour_cream", "special", 4, 0, "defense", "none"),              \* 25
       Card("sour_cream", "special", 4, 0, "defense", "none"),              \* 26
       Card("kuhar_rozbazikav", "shkvarka", 0, 0, "none", "disposable"),    \* 27
       Card("vinnik_lard", "extra", 6, 0, "none", "none"),                  \* 28
       Card("beef", "rare", 3, 2, "none", "none") >>                        \* 29

Uids == 1..Len(CardTable)

\* a uid no card has: a move that names a card that does not exist
NoSuchUid == Len(CardTable) + 1

CardId(u) == CardTable[u].id
CardType(u) == CardTable[u].type
CardCost(u) == CardTable[u].cost
CardPoints(u) == CardTable[u].points
CardEffect(u) == CardTable[u].effect
CardSubtype(u) == CardTable[u].subtype

IdsOf(q) == {CardId(q[i]) : i \in 1..Len(q)}

RECURSIVE SumCost(_)
SumCost(q) == IF q = <<>> THEN 0 ELSE CardCost(Head(q)) + SumCost(Tail(q))

RECURSIVE SumPoints(_)
SumPoints(q) == IF q = <<>> THEN 0 ELSE CardPoints(Head(q)) + SumPoints(Tail(q))

(***************************************************************************)
(* Recipes (game_cards.py: recipes), cut down to two to four ingredients.   *)
(* levels: the pairs <<completion count, bonus points>>, sorted.           *)
(***************************************************************************)
Recipes ==
    [ r_onion_carrot |->
        [ingredients |-> <<"onion", "carrot">>,
         levels |-> << <<1, 1>>, <<2, 3>> >>],
      r_onion_potato_beet |->
        [ingredients |-> <<"onion", "potato", "beet">>,
         levels |-> << <<2, 2>>, <<3, 4>> >>],
      r_carrot_beet |->
        [ingredients |-> <<"carrot", "beet">>,
         levels |-> << <<1, 1>>, <<2, 3>> >>],
      r_onion_carrot_potato_beet |->
        [ingredients |-> <<"onion", "carrot", "potato", "beet">>,
         levels |-> << <<2, 2>>, <<3, 4>>, <<4, 6>> >>] ]

RecipeIngredients(r) == Range(Recipes[r].ingredients)
RecipeSize(r) == Len(Recipes[r].ingredients)

(***************************************************************************)
(* GameState, MoveAction                                                   *)
(***************************************************************************)
NORMAL_TURN == "normal_turn"
WAITING_FOR_DEFENSE == "waiting_for_defense"
WAITING_FOR_SELECTION == "waiting_for_selection"
WAITING_FOR_DISCARD == "waiting_for_discard"
WAITING_FOR_EXCHANGE == "waiting_for_exchange"

ADD_INGREDIENT == "add_ingredient"
DRAW_CARDS == "draw_cards"
PLAY_SPECIAL == "play_special"
EXCHANGE_INGREDIENTS == "exchange_ingredients"
FREE_MARKET_REFRESH == "free_market_refresh"
SKIP == "skip"

\* GameSettings: the class defaults, with the capacities cut down by Init
DefaultSettings ==
    [ cards_to_draw |-> 2,
      market_capacity |-> 8,
      player_hand_limit |-> 8,
      market_exchange_tax |-> 0,
      extra_cards_allowed |-> TRUE,
      market_base_capacity |-> 8,
      olive_oil_look_count |-> 5,
      olive_oil_select_count |-> 2,
      cinnamon_select_count |-> 1,
      ginger_select_count |-> 2,
      chili_pepper_discard_count |-> 1,
      smetana_count_for_defence |-> 1 ]

(***************************************************************************)
(* The session as one record: the handlers below are functions on it.      *)
(* Five more fields collect what one step does: notified (who is sent a    *)
(* message), returned (the process_move calls that return), resolved (the  *)
(* sub-flows that end, with turn_state at entry and exit), created (the    *)
(* requests sent) and ended (the stats of the GAME_ENDED broadcasts).      *)
(***************************************************************************)
State ==
    [ players |-> players, deck |-> deck, market |-> market,
      discard_pile |-> discard_pile, player_hands |-> player_hands,
      player_borsht |-> player_borsht, player_recipes |-> player_recipes,
      moves_count |-> moves_count, turn_state |-> turn_state,
      current_player_index |-> current_player_index,
      is_game_over |-> is_game_over, winner |-> winner,
      first_finisher |-> first_finisher,
      pending_shkvarkas |-> pending_shkvarkas,
      active_shkvarkas |-> active_shkvarkas,
      recipes_revealed |-> recipes_revealed, game_settings |-> game_settings,
      pending_requests |-> pending_requests, sent_requests |-> sent_requests,
      game_messages |-> game_messages,
      tasks |-> tasks,
      notified |-> {}, returned |-> <<>>, resolved |-> <<>>, created |-> {},
      ended |-> <<>> ]

Commit(t) ==
    /\ players' = t.players
    /\ deck' = t.deck
    /\ market' = t.market
    /\ discard_pile' = t.discard_pile
    /\ player_hands' = t.player_hands
    /\ player_borsht' = t.player_borsht
    /\ player_recipes' = t.player_recipes
    /\ moves_count' = t.moves_count
    /\ turn_state' = t.turn_state
    /\ current_player_index' = t.current_player_index
    /\ is_game_over' = t.is_game_over
    /\ winner' = t.winner
    /\ first_finisher' = t.first_finisher
    /\ pending_shkvarkas' = t.pending_shkvarkas
    /\ active_shkvarkas' = t.active_shkvarkas
    /\ recipes_revealed' = t.recipes_revealed
    /\ game_settings' = t.game_settings
    /\ pending_requests' = t.pending_requests
    /\ sent_requests' = t.sent_requests
    /\ game_messages' = t.game_messages
    /\ tasks' = t.tasks

PlayerSet(s) == Range(s.players)

\* AbstractGameManager.current_player_id
CurrentPlayerIdOf(s) == s.players[s.current_player_index + 1]

\* connection_manager.send / broadcast: who is sent something in this step
Send(s, p) == [s EXCEPT !.notified = @ \cup {p}]
Broadcast(s) == [s EXCEPT !.notified = @ \cup PlayerSet(s)]
\* self.game_messages.append(message); broadcast(message)
LogBroadcast(s, type) ==
    [s EXCEPT !.game_messages = Append(@, type), !.notified = @ \cup PlayerSet(s)]

(***************************************************************************)
(* move_data: fields is the set of keys the dictionary has; a key that is  *)
(* absent has the value .get() gives for it.                               *)
(***************************************************************************)
NoMove ==
    [ fields |-> {}, action |-> "", card_id |-> None, target_player |-> None,
      target_cards |-> <<>>, action_type |-> "", hand_cards |-> <<>>,
      market_cards |-> <<>> ]

(***************************************************************************)
(* The card economy.  An operator that can shuffle returns the set of      *)
(* its possible outcomes.                                                  *)
(***************************************************************************)
\* the discard pile is shuffled into the deck and not emptied
ReshuffleKeepsDiscard(s) ==
    { Broadcast([s EXCEPT !.deck = @ \o d]) : d \in Perms(s.discard_pile) }

\* _reshuffle_discard
ReshuffleDiscard(s) ==
    { Broadcast([s EXCEPT !.deck = @ \o d, !.discard_pile = <<>>])
        : d \in Perms(s.discard_pile) }

\* every card popped from the deck is returned, event cards included
RECURSIVE GetCardsLoopNoDivert(_, _, _)
GetCardsLoopNoDivert(s, count, cards) ==
    IF Len(cards) >= count \/ (Len(s.deck) = 0 /\ Len(s.discard_pile) = 0)
    THEN {[s |-> s, cards |-> cards]}
    ELSE IF Len(s.deck) = 0
    THEN UNION {GetCardsLoopNoDivert(x, count, cards) : x \in ReshuffleDiscard(s)}
    ELSE GetCardsLoopNoDivert([s EXCEPT !.deck = Tail(@)], count, Append(cards, Head(s.deck)))

\* _get_cards_from_deck: the outcomes [s, cards], cards being those drawn
RECURSIVE GetCardsLoop(_, _, _)
GetCardsLoop(s, count, cards) ==
    IF Len(cards) >= count THEN {[s |-> s, cards |-> cards]}
    ELSE LET Take(x) ==
                 LET card == Head(x.deck)
                     y == [x EXCEPT !.deck = Tail(@)]
                 IN  IF CardType(card) = "shkvarka"
                     THEN GetCardsLoop([y EXCEPT !.pending_shkvarkas = Append(@, card)],
                                       count, cards)
                     ELSE GetCardsLoop(y, count, Append(cards, card))
         IN  IF Len(s.deck) = 0
             THEN UNION { IF Len(x.deck) = 0 THEN {[s |-> x, cards |-> cards]}
                          ELSE Take(x) : x \in ReshuffleDiscard(s) }
             ELSE Take(s)

GetCardsFromDeck(s, count) == GetCardsLoop(s, count, <<>>)

\* the refill draws market_capacity cards, whatever the market holds
HandleMarketRefillFull(s) ==
    { LogBroadcast([r.s EXCEPT !.market = @ \o r.cards], "market_cards_added")
        : r \in GetCardsFromDeck(s, s.game_settings.market_capacity) }

\* _handle_market_refill
HandleMarketRefill(s) ==
    { LogBroadcast([r.s EXCEPT !.market = @ \o r.cards], "market_cards_added")
        : r \in GetCardsFromDeck(s, s.game_settings.market_capacity - Len(s.market)) }

\* _handle_market_refresh with cards_to_discard = None
HandleMarketRefresh(s) ==
    HandleMarketRefill(
        LogBroadcast([s EXCEPT !.market = <<>>, !.discard_pile = @ \o s.market],
                     "cards_from_market_discarded"))

\* _is_market_free_refresh_available
IsMarketFreeRefreshAvailable(s) ==
    \E id \in IdsOf(s.market) :
        Cardinality({i \in 1..Len(s.market) : CardId(s.market[i]) = id}) >= 3

\* _handle_free_market_refresh: the outcomes [s, ok, err]
HandleFreeMarketRefresh(s) ==
    IF ~IsMarketFreeRefreshAvailable(s)
    THEN {[s |-> s, ok |-> FALSE, err |-> "Free market refresh not available"]}
    ELSE {[s |-> x, ok |-> TRUE, err |-> "none"] : x \in HandleMarketRefresh(s)}

\* _handle_paprika
HandlePaprika(s) ==
    {[s |-> x, ok |-> TRUE, err |-> "none"]
        : x \in HandleMarketRefresh([s EXCEPT !.turn_state = WAITING_FOR_EXCHANGE])}

\* _handle_add_ingredient
HandleAddIngredient(s, p, m) ==
    LET hand == s.player_hands[p]
        card_index == IndexOf(hand, m.card_id)
        card == hand[card_index]
        Fail(e) == [s |-> s, ok |-> FALSE, err |-> e]
    IN  IF "card_id" \notin m.fields THEN Fail("Card ID required to add ingredient")
        ELSE IF card_index = 0 THEN Fail("Card not in hand")
        ELSE IF CardType(card) = "special"
            THEN Fail("Special ingredients cannot be added to borsht")
        ELSE IF CardType(card) = "extra" /\ ~s.game_settings.extra_cards_allowed
            THEN Fail("Extra cards not allowed")
        ELSE IF /\ CardType(card) \in {"regular", "rare"}
                /\ CardId(card) \notin RecipeIngredients(s.player_recipes[p])
            THEN Fail("Card not in your recipe")
        ELSE IF CardId(card) \in IdsOf(s.player_borsht[p])
            THEN Fail("You already have this ingredient in your borsht")
        ELSE [s |-> LogBroadcast(
                        [s EXCEPT !.player_borsht[p] = Append(@, card),
                                  !.player_hands[p] = RemoveAt(@, card_index)],
                        "ingredient_added"),
              ok |-> TRUE, err |-> "none"]

\* _handle_add_ingredient when connection.send_json raises inside the
\* broadcast of line 423: the exception leaves _handle_add_ingredient,
\* _process_move and process_move, none of which catches it
AddIngredientBroadcastRaises(s, p, m) ==
    LET r == HandleAddIngredient([s EXCEPT !.moves_count[p] = @ + 1], p, m)
    IN  [r.s EXCEPT !.notified = s.notified,
                    !.returned = Append(@, [player |-> p, ok |-> FALSE,
                                            err |-> "exception"])]

\* _handle_draw_cards
HandleDrawCards(s, p) ==
    { IF Len(r.cards) = 0
      THEN [s |-> r.s, ok |-> FALSE, err |-> "No cards available to draw"]
      ELSE [s |-> LogBroadcast([r.s EXCEPT !.player_hands[p] = @ \o r.cards],
                               "cards_drawn"),
            ok |-> TRUE, err |-> "none"]
        : r \in GetCardsFromDeck(s, s.game_settings.cards_to_draw) }

(***************************************************************************)
(* Coroutines.  A task is a call stack of frames [fn, pc, v]: fn the       *)
(* coroutine, pc the await it stands at, v its locals.  ret holds the      *)
(* value of the call that returned last.                                   *)
(***************************************************************************)
NoRet ==
    [ ok |-> TRUE, err |-> "none", cont |-> FALSE, cards |-> <<>>,
      selected |-> <<>>, timed_out |-> FALSE, random_select |-> FALSE,
      use_defense |-> FALSE, request_id |-> None ]

Frame(fn, pc, v) == [fn |-> fn, pc |-> pc, v |-> v]

Top(s, t) == s.tasks[t].stack[Len(s.tasks[t].stack)]

Goto(s, t, pc) == [s EXCEPT !.tasks[t].stack[Len(s.tasks[t].stack)].pc = pc]

GotoWith(s, t, pc, v) ==
    [s EXCEPT !.tasks[t].stack[Len(s.tasks[t].stack)] = [@ EXCEPT !.pc = pc, !.v = v]]

\* await callee(...): the caller resumes at pc when the callee returns
Call(s, t, pc, callee) ==
    [s EXCEPT !.tasks[t].stack = Append([@ EXCEPT ![Len(@)].pc = pc], callee)]

Return(s, t, val) ==
    [s EXCEPT !.tasks[t].stack = SubSeq(@, 1, Len(@) - 1), !.tasks[t].ret = val]

\* a sub-flow ends: what it was offered and what it returns is recorded for
\* a card selection
ResolvedWith(s, flow, entry, offered, select_count, remaining, selected, timed_out) ==
    [s EXCEPT !.resolved = Append(@, [flow |-> flow, entry |-> entry,
                                      exit |-> s.turn_state, offered |-> offered,
                                      select_count |-> select_count,
                                      remaining |-> remaining, selected |-> selected,
                                      timed_out |-> timed_out])]

Resolved(s, flow, entry) == ResolvedWith(s, flow, entry, <<>>, 0, <<>>, <<>>, FALSE)

WithoutKey(f, k) == [x \in (DOMAIN f) \ {k} |-> f[x]]

SmallestNotIn(S) == CHOOSE n \in 1..(Cardinality(S) + 1) : n \notin S

\* an uncaught exception (IndexError of list.pop) ends the coroutine
Abort(s, t) ==
    [s EXCEPT !.tasks = WithoutKey(@, t),
              !.returned = Append(@, [player |-> s.tasks[t].stack[1].v.player,
                                      ok |-> FALSE, err |-> "exception"])]

(***************************************************************************)
(* _request_to_player.  The request id of the code is built from the       *)
(* clock and a random number: here it is the smallest number that is not   *)
(* the id of a pending request nor of the request this one retries.        *)
(***************************************************************************)
RequestFrame(player, rtype, cards, select_count, avoid) ==
    Frame("request", "start",
          [player |-> player, rtype |-> rtype, cards |-> cards,
           select_count |-> select_count, avoid |-> avoid, request_id |-> None])

RequestStart(s, t, f) ==
    LET rid == SmallestNotIn((DOMAIN s.pending_requests) \cup {f.v.avoid})
        req == [player |-> f.v.player, type |-> f.v.rtype, cards |-> f.v.cards,
                select_count |-> f.v.select_count, task |-> t]
        request_message == [type |-> f.v.rtype, request_id |-> rid,
                            cards |-> f.v.cards, select_count |-> f.v.select_count]
        s1 == Send(s, f.v.player)
    IN  { GotoWith([s1 EXCEPT !.pending_requests = (rid :> req) @@ @,
                              !.sent_requests = (rid :> request_message) @@ @,
                              !.created = @ \cup {rid}],
                   t, "wait", [f.v EXCEPT !.request_id = rid]) }

\* the request is left among the pending ones when its caller resumes
RequestResumeNoCleanup(s, rid, response) ==
    Return(s, s.pending_requests[rid].task, [response EXCEPT !.request_id = rid])

\* the message of the request is left in sent_requests
RequestResumeKeepsMessage(s, rid, response) ==
    Return([s EXCEPT !.pending_requests = WithoutKey(@, rid)],
           s.pending_requests[rid].task,
           [response EXCEPT !.request_id = rid])

\* the future is resolved or the wait times out: finally, then return
RequestResume(s, rid, response) ==
    Return([s EXCEPT !.pending_requests = WithoutKey(@, rid),
                     !.sent_requests = WithoutKey(@, rid)],
           s.pending_requests[rid].task,
           [response EXCEPT !.request_id = rid])

(***************************************************************************)
(* _cards_selection_request                                                *)
(***************************************************************************)
SelectionFrame(owner, cards, select_count, rtype, selector) ==
    Frame("selection", "start",
          [owner |-> owner, cards |-> cards, select_count |-> select_count,
           rtype |-> rtype, selector |-> selector,
           previous_state |-> NORMAL_TURN, avoid |-> None])

\* the loop over selected_card_ids: [found, cards, selected]
RECURSIVE SelectByIds(_, _, _)
SelectByIds(updated_cards, discarded_cards, ids) ==
    IF ids = <<>>
    THEN [found |-> TRUE, cards |-> updated_cards, selected |-> discarded_cards]
    ELSE LET i == IndexOf(updated_cards, Head(ids))
         IN  IF i = 0
             THEN [found |-> FALSE, cards |-> updated_cards, selected |-> discarded_cards]
             ELSE SelectByIds(RemoveAt(updated_cards, i),
                              Append(discarded_cards, updated_cards[i]), Tail(ids))

SelectionStart(s, t, f) ==
    LET v == f.v
    IN  IF v.select_count <= 0 \/ Len(v.cards) <= 0
        THEN {Return(s, t, [NoRet EXCEPT !.cards = v.cards])}
        ELSE IF Len(v.cards) <= v.select_count
        THEN {Return(s, t, [NoRet EXCEPT !.selected = v.cards])}
        ELSE LET s1 == Send([s EXCEPT !.turn_state = WAITING_FOR_SELECTION], v.selector)
                 s2 == GotoWith(s1, t, "after_request",
                                [v EXCEPT !.previous_state = s.turn_state])
             IN  {Call(s2, t, "after_request",
                       RequestFrame(v.selector, v.rtype, v.cards, v.select_count, v.avoid))}

SelectionAfterRequest(s, t, f) ==
    LET v == f.v
        response == s.tasks[t].ret
        s1 == [s EXCEPT !.turn_state = v.previous_state]
        \* return await self._cards_selection_request(...)
        Retry == GotoWith(s1, t, "start", [v EXCEPT !.avoid = response.request_id])
        Done(cards, selected) ==
            Return(ResolvedWith(s1, "selection", v.previous_state, v.cards,
                                v.select_count, cards, selected, response.timed_out),
                   t, [NoRet EXCEPT !.cards = cards, !.selected = selected])
    IN  IF response.timed_out \/ response.random_select
        THEN { Done(DropPositions(v.cards, I), TakeDescending(v.cards, I))
                 : I \in Subsets(1..Len(v.cards), v.select_count) }
        ELSE IF Len(response.selected) # v.select_count
        THEN {Retry}
        ELSE LET r == SelectByIds(v.cards, <<>>, response.selected)
             IN  IF r.found THEN {Done(r.cards, r.selected)} ELSE {Retry}

(***************************************************************************)
(* _handle_hand_limit                                                      *)
(***************************************************************************)
HandLimitFrame(player) ==
    Frame("hand_limit", "start",
          [player |-> player, entry_state |-> NORMAL_TURN])

HandLimitStart(s, t, f) ==
    LET p == f.v.player
        current_hand == s.player_hands[p]
        limit == s.game_settings.player_hand_limit
    IN  IF Len(current_hand) <= limit
        THEN {Return(s, t, [NoRet EXCEPT !.cards = current_hand])}
        ELSE LET s1 == Send([s EXCEPT !.turn_state = WAITING_FOR_DISCARD], p)
                 s2 == GotoWith(s1, t, "after_selection",
                                [f.v EXCEPT !.entry_state = s.turn_state])
             IN  {Call(s2, t, "after_selection",
                       SelectionFrame(p, current_hand, Len(current_hand) - limit,
                                      "discard_selection", p))}

HandLimitAfterSelection(s, t, f) ==
    LET r == s.tasks[t].ret
        s1 == Broadcast([s EXCEPT !.discard_pile = @ \o r.selected])
        s2 == [s1 EXCEPT !.game_messages = Append(@, "cards_from_hand_discarded")]
    IN  {Return(Resolved(s2, "hand_limit", f.v.entry_state), t,
                [NoRet EXCEPT !.ok = r.ok, !.cards = r.cards])}

(***************************************************************************)
(* _check_sour_cream_defense                                               *)
(***************************************************************************)
DefenseFrame(target_player) ==
    Frame("defense", "start",
          [target_player |-> target_player, sour_cream_indexes |-> <<>>,
           temp |-> NORMAL_TURN])

\* the positions of the first n sour creams of a hand, ascending
SourCreamIndexes(hand, n) ==
    LET all == { i \in 1..Len(hand) :
                   /\ CardId(hand[i]) = "sour_cream"
                   /\ CardType(hand[i]) = "special"
                   /\ CardEffect(hand[i]) = "defense" }
    IN  { i \in all : Cardinality({j \in all : j < i}) < n }

\* pop the positions of I, highest first, appending each popped card
RECURSIVE PopDescending(_, _, _)
PopDescending(hand, pile, I) ==
    IF I = {} THEN [hand |-> hand, pile |-> pile]
    ELSE LET i == CHOOSE x \in I : \A y \in I : y <= x
         IN  PopDescending(RemoveAt(hand, i), Append(pile, hand[i]), I \ {i})

DefenseStart(s, t, f) ==
    LET target == f.v.target_player
        idx == SourCreamIndexes(s.player_hands[target],
                                s.game_settings.smetana_count_for_defence)
    IN  IF Cardinality(idx) < s.game_settings.smetana_count_for_defence
        THEN {Return(s, t, [NoRet EXCEPT !.use_defense = FALSE])}
        ELSE LET s1 == Send([s EXCEPT !.turn_state = WAITING_FOR_DEFENSE],
                            CurrentPlayerIdOf(s))
                 s2 == GotoWith(s1, t, "after_request",
                                [f.v EXCEPT !.sour_cream_indexes = idx,
                                            !.temp = s.turn_state])
             IN  {Call(s2, t, "after_request",
                       RequestFrame(target, "defense_request", <<>>, 0, None))}

DefenseAfterRequest(s, t, f) ==
    LET target == f.v.target_player
        response == s.tasks[t].ret
        s1 == [s EXCEPT !.turn_state = f.v.temp]
        defense_used == response.use_defense /\ ~response.timed_out
        idx == f.v.sour_cream_indexes
        r == PopDescending(s1.player_hands[target], s1.discard_pile, idx)
    IN  IF ~defense_used
        THEN {Return(Resolved(s1, "defense", f.v.temp), t,
                     [NoRet EXCEPT !.use_defense = FALSE])}
        ELSE IF \E i \in idx : i > Len(s1.player_hands[target])
        THEN {Abort(s1, t)}
        ELSE {Return(Resolved(LogBroadcast([s1 EXCEPT !.player_hands[target] = r.hand,
                                                      !.discard_pile = r.pile],
                                           "defense_successful"),
                              "defense", f.v.temp),
                     t, [NoRet EXCEPT !.use_defense = TRUE])}

(***************************************************************************)
(* Lists of (index, card) pairs, as the handlers collect them.             *)
(***************************************************************************)
\* the pairs <<index, card>> of the uids found in q; index 0 when absent
FindObjects(q, uids) ==
    [k \in 1..Len(uids) |->
        LET i == IndexOf(q, uids[k]) IN <<i, IF i = 0 THEN None ELSE q[i]>>]

\* sorted(objects, key=lambda x: x[0], reverse=True)
RECURSIVE SortByIndexDescending(_)
SortByIndexDescending(objs) ==
    IF objs = <<>> THEN <<>>
    ELSE LET m == CHOOSE k \in 1..Len(objs) :
                    /\ \A j \in 1..Len(objs) : objs[j][1] <= objs[k][1]
                    /\ \A j \in 1..(k - 1) : objs[j][1] < objs[k][1]
         IN  <<objs[m]>> \o SortByIndexDescending(RemoveAt(objs, m))

\* q.pop(i) for each pair in turn; ok is FALSE when an index is out of range
RECURSIVE PopEach(_, _)
PopEach(q, objs) ==
    IF objs = <<>> THEN [ok |-> TRUE, q |-> q]
    ELSE IF Head(objs)[1] > Len(q) THEN [ok |-> FALSE, q |-> q]
    ELSE PopEach(RemoveAt(q, Head(objs)[1]), Tail(objs))

CardsOf(objs) == [k \in 1..Len(objs) |-> objs[k][2]]

(***************************************************************************)
(* Special ingredients                                                     *)
(***************************************************************************)
\* _handle_olive_oil
OliveOilStart(s, t, f) ==
    LET p == f.v.player
        look_count == s.game_settings.olive_oil_look_count
        select_count == s.game_settings.olive_oil_select_count
    IN  IF Len(s.deck) < select_count
        THEN {Return(s, t, [NoRet EXCEPT !.ok = FALSE, !.err = "Not enough cards in deck"])}
        ELSE { Call(r.s, t, "after_selection",
                    SelectionFrame(p, r.cards, select_count, "olive_oil_selection", p))
                 : r \in GetCardsFromDeck(
                             Send([s EXCEPT !.turn_state = WAITING_FOR_SELECTION], p),
                             look_count) }

OliveOilAfterSelection(s, t, f) ==
    LET p == f.v.player
        look_count == s.game_settings.olive_oil_look_count
        r == s.tasks[t].ret
    IN  {Return(Send([s EXCEPT !.deck = r.cards \o SubSeq(@, look_count + 1, Len(@)),
                               !.player_hands[p] = @ \o r.selected], p),
                t, NoRet)}

\* _handle_ginger
GingerStart(s, t, f) ==
    LET p == f.v.player
        Min(a, b) == IF a < b THEN a ELSE b
    IN  IF Len(s.market) = 0
        THEN {Return(s, t, [NoRet EXCEPT !.ok = FALSE, !.err = "No cards in market"])}
        ELSE {Call(Send([s EXCEPT !.turn_state = WAITING_FOR_SELECTION], p),
                   t, "after_selection",
                   SelectionFrame(p, s.market,
                                  Min(s.game_settings.ginger_select_count, Len(s.market)),
                                  "ginger_selection", p))}

GingerAfterSelection(s, t, f) ==
    LET p == f.v.player
        r == s.tasks[t].ret
        s1 == LogBroadcast([s EXCEPT !.market = r.cards,
                                     !.player_hands[p] = @ \o r.selected],
                           "market_cards_taken")
    IN  {Return(x, t, NoRet) : x \in HandleMarketRefill(s1)}

\* _handle_chili_pepper.  The moves of the model always carry target_player.
ChiliStart(s, t, f) ==
    LET p == f.v.player
        m == f.v.m
        hand == s.player_hands[p]
        pepper_index == IndexOf(hand, m.card_id)
        target == m.target_player
        Fail(e) == {Return(s, t, [NoRet EXCEPT !.ok = FALSE, !.err = e])}
        Min(a, b) == IF a < b THEN a ELSE b
    IN  IF m.card_id = None THEN Fail("Card ID required to play Chili Pepper")
        ELSE IF pepper_index = 0 THEN Fail("Card not in hand")
        ELSE IF CardId(hand[pepper_index]) # "chili_pepper"
            THEN Fail("Selected card is not Chili Pepper")
        ELSE IF target = None \/ m.target_cards = <<>> \/ "action_type" \notin m.fields
            THEN Fail("Target player, target cards, and action type required")
        ELSE IF m.action_type \notin {"steal", "discard"}
            THEN Fail("Invalid action type. Must be 'steal' or 'discard'")
        ELSE IF target \notin PlayerSet(s) \/ target = s.first_finisher
            THEN Fail("Invalid target player")
        ELSE LET select_count == Min(s.game_settings.chili_pepper_discard_count,
                                     Len(s.player_borsht[target]))
                 objs == FindObjects(s.player_borsht[target], m.target_cards)
             IN  IF Len(m.target_cards) # select_count
                 THEN Fail("Should be targeting at select_count cards")
                 ELSE IF \E k \in 1..Len(objs) : objs[k][1] = 0
                 THEN Fail("Card not found in target player's borsht")
                 ELSE {Call(GotoWith(LogBroadcast(s, "special_effect"), t, "after_defense",
                                     [f.v EXCEPT !.target_card_objects = objs]),
                            t, "after_defense", DefenseFrame(target))}

\* the loop of the steal without the test of already_has
RECURSIVE ChiliApplyNoTest(_, _, _, _, _)
ChiliApplyNoTest(s, p, target, action_type, objs) ==
    IF objs = <<>> THEN [ok |-> TRUE, s |-> s]
    ELSE IF Head(objs)[1] > Len(s.player_borsht[target]) THEN [ok |-> FALSE, s |-> s]
    ELSE LET c == Head(objs)[2]
             s1 == [s EXCEPT !.player_borsht[target] = RemoveAt(@, Head(objs)[1])]
             s2 == IF action_type = "steal"
                   THEN [s1 EXCEPT !.player_borsht[p] = Append(@, c)]
                   ELSE [s1 EXCEPT !.discard_pile = Append(@, c)]
         IN  ChiliApplyNoTest(s2, p, target, action_type, Tail(objs))

\* the loop over the sorted target_card_objects: [ok, s], ok FALSE when a
\* pop is out of range
RECURSIVE ChiliApply(_, _, _, _, _)
ChiliApply(s, p, target, action_type, objs) ==
    IF objs = <<>> THEN [ok |-> TRUE, s |-> s]
    ELSE IF Head(objs)[1] > Len(s.player_borsht[target]) THEN [ok |-> FALSE, s |-> s]
    ELSE LET c == Head(objs)[2]
             s1 == [s EXCEPT !.player_borsht[target] = RemoveAt(@, Head(objs)[1])]
             s2 == IF action_type = "steal" /\ CardId(c) \notin IdsOf(s1.player_borsht[p])
                   THEN [s1 EXCEPT !.player_borsht[p] = Append(@, c)]
                   ELSE [s1 EXCEPT !.discard_pile = Append(@, c)]
         IN  ChiliApply(s2, p, target, action_type, Tail(objs))

ChiliAfterDefense(s, t, f) ==
    LET p == f.v.player
        m == f.v.m
        r == ChiliApply(s, p, m.target_player, m.action_type,
                        SortByIndexDescending(f.v.target_card_objects))
    IN  IF s.tasks[t].ret.use_defense
        THEN {Return(s, t, [NoRet EXCEPT !.err = "Target defended with Sour Cream"])}
        ELSE IF ~r.ok THEN {Abort(s, t)}
        ELSE {Return(LogBroadcast(r.s, "chili_pepper_effect_applied"), t, NoRet)}

\* _handle_special_ingredient
SpecialStart(s, t, f) ==
    LET p == f.v.player
        m == f.v.m
        hand == s.player_hands[p]
        card_index == IndexOf(hand, m.card_id)
        card == hand[card_index]
        effect == CardEffect(card)
        Fail(e) == {Return(s, t, [NoRet EXCEPT !.ok = FALSE, !.err = e, !.cont = TRUE])}
        v == [player |-> p, m |-> m, card_index |-> card_index, card |-> card,
              is_move_continues |-> FALSE]
        Await(callee) == {Call(GotoWith(s, t, "after_effect", v), t, "after_effect", callee)}
        Arg == [player |-> p, m |-> m, target_card_objects |-> <<>>]
    IN  IF "card_id" \notin m.fields
        THEN Fail("Card ID required to play special ingredient")
        ELSE IF card_index = 0 THEN Fail("Card not in hand")
        ELSE IF CardType(card) # "special" THEN Fail("Card is not a special ingredient")
        ELSE IF effect = "steal_or_discard" THEN Await(Frame("chili", "start", Arg))
        ELSE IF effect = "defense"
            THEN Fail("Sour Cream is used defensively when targeted by another player")
        ELSE IF effect = "take_market" THEN Await(Frame("ginger", "start", Arg))
        ELSE IF effect = "look_top_5" THEN Await(Frame("olive_oil", "start", Arg))
        ELSE IF effect = "refresh_market"
            THEN { GotoWith([r.s EXCEPT !.tasks[t].ret = NoRet], t, "after_effect",
                            [v EXCEPT !.is_move_continues = TRUE])
                     : r \in HandlePaprika(s) }
        ELSE Fail("none")  \* an effect without a handler: success stays False

SpecialAfterEffect(s, t, f) ==
    LET p == f.v.player
        r == s.tasks[t].ret
    IN  IF ~r.ok
        THEN {Return(s, t, [NoRet EXCEPT !.ok = FALSE, !.err = r.err, !.cont = TRUE])}
        ELSE IF f.v.card_index > Len(s.player_hands[p]) THEN {Abort(s, t)}
        ELSE {Return(Broadcast(LogBroadcast(
                         [s EXCEPT !.player_hands[p] = RemoveAt(@, f.v.card_index),
                                   !.discard_pile = Append(@, f.v.card)],
                         "special_played")),
                     t, [NoRet EXCEPT !.cont = f.v.is_move_continues])}

(***************************************************************************)
(* Exchange with the market                                                *)
(***************************************************************************)
\* _handle_market_limit
MarketLimitStart(s, t, f) ==
    LET Refilled == IF Len(s.market) < s.game_settings.market_capacity
                    THEN HandleMarketRefill(s) ELSE {s}
        Trim(x) ==
            IF Len(x.market) > x.game_settings.market_capacity
            THEN Call(GotoWith(Send([x EXCEPT !.turn_state = WAITING_FOR_SELECTION],
                                    CurrentPlayerIdOf(x)),
                               t, "after_selection", [temp_state |-> x.turn_state]),
                      t, "after_selection",
                      SelectionFrame(CurrentPlayerIdOf(x), x.market,
                                     Len(x.market) - x.game_settings.market_capacity,
                                     "discard_selection", CurrentPlayerIdOf(x)))
            ELSE Return(x, t, NoRet)
    IN  {Trim(x) : x \in Refilled}

MarketLimitAfterSelection(s, t, f) ==
    LET r == s.tasks[t].ret
        s1 == LogBroadcast([s EXCEPT !.discard_pile = @ \o r.selected,
                                     !.market = r.cards,
                                     !.turn_state = f.v.temp_state],
                           "cards_from_market_discarded")
    IN  {Return(Resolved(s1, "market_limit", f.v.temp_state), t, NoRet)}

\* _handle_exchange, lines 1347-1411: the checks and the swap.  The pops
\* change the lists in place: when one of them raises IndexError (raised),
\* the cards popped before it are gone from the hand and the market.
HandleExchange(s, p, m) ==
    LET Fail(e) == [s |-> s, ok |-> FALSE, raised |-> FALSE, err |-> e]
    IN  IF "hand_cards" \notin m.fields \/ "market_cards" \notin m.fields
        THEN Fail("Hand cards and market cards required for exchange")
        ELSE IF Len(m.hand_cards) # 1 /\ Len(m.market_cards) # 1
        THEN Fail("Exchange must be 1-to-many or many-to-1")
        ELSE
        LET hand_card_objects == FindObjects(s.player_hands[p], m.hand_cards)
            market_card_objects == FindObjects(s.market, m.market_cards)
        IN  IF \E k \in 1..Len(hand_card_objects) : hand_card_objects[k][1] = 0
            THEN Fail("Card not in hand")
            ELSE IF \E k \in 1..Len(market_card_objects) : market_card_objects[k][1] = 0
            THEN Fail("Card not in market")
            ELSE IF SumCost(CardsOf(hand_card_objects)) <
                    SumCost(CardsOf(market_card_objects)) + s.game_settings.market_exchange_tax
            THEN Fail("Hand card value must be >= market cards total")
            ELSE
            LET hand == PopEach(s.player_hands[p], SortByIndexDescending(hand_card_objects))
                mkt == PopEach(s.market, SortByIndexDescending(market_card_objects))
            IN  IF ~hand.ok
                THEN [s |-> [s EXCEPT !.player_hands[p] = hand.q],
                      ok |-> FALSE, raised |-> TRUE, err |-> "exception"]
                ELSE IF ~mkt.ok
                THEN [s |-> [s EXCEPT !.player_hands[p] = hand.q, !.market = mkt.q],
                      ok |-> FALSE, raised |-> TRUE, err |-> "exception"]
                ELSE [s |-> [s EXCEPT !.player_hands[p] = hand.q \o CardsOf(market_card_objects),
                                      !.market = mkt.q \o CardsOf(hand_card_objects)],
                      ok |-> TRUE, raised |-> FALSE, err |-> "none"]

\* _handle_exchange
ExchangeStart(s, t, f) ==
    LET r == HandleExchange(s, f.v.player, f.v.m)
    IN  IF r.raised THEN {Abort(r.s, t)}
        ELSE IF ~r.ok THEN {Return(s, t, [NoRet EXCEPT !.ok = FALSE, !.err = r.err])}
        ELSE {Call(LogBroadcast(r.s, "ingredients_exchanged"),
                   t, "after_market_limit",
                   Frame("market_limit", "start", [temp_state |-> NORMAL_TURN]))}

ExchangeAfterMarketLimit(s, t, f) == {Return(s, t, NoRet)}

(***************************************************************************)
(* Event cards (shkvarkas)                                                 *)
(***************************************************************************)
\* _handle_shkvarka_zgorila_zasmazhka
RECURSIVE ZgorilaZasmazhka(_, _)
ZgorilaZasmazhka(s, ps) ==
    IF ps = <<>> THEN s
    ELSE LET p == Head(ps)
             borsht == s.player_borsht[p]
             zasmazhka_indices == { i \in 1..Len(borsht) :
                                      CardId(borsht[i]) \in {"onion", "carrot"} }
         IN  IF zasmazhka_indices = {} THEN ZgorilaZasmazhka(s, Tail(ps))
             ELSE ZgorilaZasmazhka(
                      LogBroadcast(
                          [s EXCEPT !.player_borsht[p] = DropPositions(borsht, zasmazhka_indices),
                                    !.discard_pile = @ \o TakeDescending(borsht, zasmazhka_indices)],
                          "borsht_card_discarded"),
                      Tail(ps))

\* _handle_shkvarka_garmyder_na_kuhni: the loop over the borshts
RECURSIVE GarmyderDiscard(_, _)
GarmyderDiscard(s, ps) ==
    IF ps = <<>> THEN s
    ELSE LET p == Head(ps)
             Keep(c) == \/ CardId(c) \in RecipeIngredients(s.player_recipes[p])
                        \/ CardType(c) = "extra"
             Drop(c) == ~Keep(c)
         IN  GarmyderDiscard(
                 LogBroadcast(
                     [s EXCEPT !.player_borsht[p] = SelectSeq(@, Keep),
                               !.discard_pile = @ \o SelectSeq(s.player_borsht[p], Drop)],
                     "borsht_card_discarded"),
                 Tail(ps))

GarmyderNaKuhni(s) ==
    LET n == Len(s.players)
        old_recipes == s.player_recipes
        passed == [p \in PlayerSet(s) |->
                       old_recipes[s.players[(IndexOf(s.players, p) % n) + 1]]]
    IN  GarmyderDiscard([s EXCEPT !.player_recipes = passed], s.players)

\* the number of cards _handle_shkvarka_postachalnyk_pereplutav deals
PostachalnykDraw == 5

\* _handle_shkvarka_postachalnyk_pereplutav: the loop over ordered_players
RECURSIVE PostachalnykLoop(_, _)
PostachalnykLoop(s, ps) ==
    IF ps = <<>> THEN {s}
    ELSE LET p == Head(ps)
             s1 == [s EXCEPT !.discard_pile = @ \o s.player_hands[p],
                             !.player_hands[p] = <<>>]
         IN  UNION { PostachalnykLoop(
                         LogBroadcast([r.s EXCEPT !.player_hands[p] = @ \o r.cards],
                                      "cards_from_hand_discarded"),
                         Tail(ps))
                       : r \in GetCardsFromDeck(s1, PostachalnykDraw) }

PostachalnykPereplutav(s) ==
    LET i == s.current_player_index
    IN  PostachalnykLoop(s, SubSeq(s.players, i + 1, Len(s.players))
                            \o SubSeq(s.players, 1, i))

\* _handle_shkvarka_porvalas_torbynka: one task per player, then the loop
\* "for task in tasks: if not task.done(): await task" at position i
PorvalasPlayerFrame(player, parent) ==
    Frame("porvalas_player", "start", [player |-> player, parent |-> parent])

JoinFrame(children) ==
    Frame("porvalas", "join", [children |-> children, i |-> 1, started |-> FALSE])

\* asyncio.create_task for each player of ps, in order: [s, children]
RECURSIVE CreateTasks(_, _, _, _)
CreateTasks(s, parent, ps, children) ==
    IF ps = <<>> THEN [s |-> s, children |-> children]
    ELSE LET c == SmallestNotIn(DOMAIN s.tasks)
             task == [stack |-> <<PorvalasPlayerFrame(Head(ps), parent)>>, ret |-> NoRet]
         IN  CreateTasks([s EXCEPT !.tasks = (c :> task) @@ @], parent, Tail(ps),
                         Append(children, c))

PorvalasTorbynka(s, t) ==
    LET s1 == [s EXCEPT !.game_settings.player_hand_limit = 4]
        r == CreateTasks(s1, t, s1.players, <<>>)
    IN  Call(r.s, t, "after_handler", JoinFrame(r.children))

\* the loop over the tasks: a task that is done is passed over
PorvalasJoin(s, t, f) ==
    IF f.v.i > Len(f.v.children) THEN {Return(s, t, NoRet)}
    ELSE {GotoWith(s, t, "join", [f.v EXCEPT !.i = @ + 1])}

\* _process_player of porvalas_torbynka
PorvalasPlayerStart(s, t, f) ==
    {Call(s, t, "after_hand_limit", HandLimitFrame(f.v.player))}

PorvalasPlayerAfterHandLimit(s, t, f) ==
    LET r == s.tasks[t].ret
        s1 == IF r.ok THEN [s EXCEPT !.player_hands[f.v.player] = r.cards] ELSE s
    IN  {[Broadcast(s1) EXCEPT !.tasks = WithoutKey(@, t)]}

\* _handle_shkvarka_sanepidemstancia
Sanepidemstancia(s, t) ==
    Call([s EXCEPT !.game_settings.market_capacity = @ - 2], t, "after_handler",
         Frame("market_limit", "start", [temp_state |-> NORMAL_TURN]))

\* molochka_skysla sets the count of the chili pepper instead of its own
StandingRuleMisnamed(s, id) ==
    IF id = "defolt_crisa" THEN [s EXCEPT !.game_settings.market_exchange_tax = 1]
    ELSE IF id = "kayenskyi_perec"
    THEN [s EXCEPT !.game_settings.chili_pepper_discard_count = 2]
    ELSE IF id = "peresolyly" THEN [s EXCEPT !.game_settings.extra_cards_allowed = FALSE]
    ELSE [s EXCEPT !.game_settings.chili_pepper_discard_count = 2]

\* _handle_shkvarka_defolt_crisa, _kayenskyi_perec, _peresolyly and
\* _molochka_skysla: each sets one game setting
StandingRule(s, id) ==
    IF id = "defolt_crisa" THEN [s EXCEPT !.game_settings.market_exchange_tax = 1]
    ELSE IF id = "kayenskyi_perec"
    THEN [s EXCEPT !.game_settings.chili_pepper_discard_count = 2]
    ELSE IF id = "peresolyly" THEN [s EXCEPT !.game_settings.extra_cards_allowed = FALSE]
    ELSE [s EXCEPT !.game_settings.smetana_count_for_defence = 2]

\* _handle_shkvarka
ShkvarkaFrame(card) == Frame("shkvarka", "start", [card |-> card, temp |-> NORMAL_TURN])

ShkvarkaStart(s, t, f) ==
    LET card == f.v.card
        s1 == [Broadcast(s) EXCEPT !.game_messages = Append(@, "shkvarka_drawn")]
        s2 == IF CardSubtype(card) = "permanent"
              THEN [s1 EXCEPT !.active_shkvarkas = Append(@, card)] ELSE s1
        s3 == Broadcast([s2 EXCEPT !.turn_state = WAITING_FOR_SELECTION])
        s4 == GotoWith(s3, t, "after_handler", [f.v EXCEPT !.temp = s.turn_state])
    IN  IF CardId(card) = "zgorila_zasmazhka" THEN {ZgorilaZasmazhka(s4, s4.players)}
        ELSE IF CardId(card) = "garmyder_na_kuhni" THEN {GarmyderNaKuhni(s4)}
        ELSE IF CardId(card) = "porvalas_torbynka" THEN {PorvalasTorbynka(s4, t)}
        ELSE IF CardId(card) = "sanepidemstancia" THEN {Sanepidemstancia(s4, t)}
        ELSE IF CardId(card) = "postachalnyk_pereplutav" THEN PostachalnykPereplutav(s4)
        ELSE IF CardId(card) = "kuhar_rozbazikav" THEN {[s4 EXCEPT !.recipes_revealed = TRUE]}
        ELSE {StandingRule(s4, CardId(card))}

ShkvarkaAfterHandler(s, t, f) ==
    {Return(ResolvedWith(Broadcast([s EXCEPT !.turn_state = f.v.temp]), "shkvarka",
                         f.v.temp, <<f.v.card>>, 0, <<>>, <<>>, FALSE),
            t, NoRet)}

\* _process_shkvarkas: i is the position of the for loop in the list
ProcessShkvarkasFrame == Frame("process_shkvarkas", "loop", [i |-> 1])

\* only the first pending card is handled before the list is cleared
ProcessShkvarkasOnlyFirst(s, t, f) ==
    IF f.v.i = 1 /\ Len(s.pending_shkvarkas) >= 1
    THEN {Call(GotoWith(s, t, "loop", [i |-> f.v.i + 1]), t, "loop",
               ShkvarkaFrame(s.pending_shkvarkas[f.v.i]))}
    ELSE {Return([s EXCEPT !.pending_shkvarkas = <<>>], t, NoRet)}

ProcessShkvarkasLoop(s, t, f) ==
    IF f.v.i <= Len(s.pending_shkvarkas)
    THEN {Call(GotoWith(s, t, "loop", [i |-> f.v.i + 1]), t, "loop",
               ShkvarkaFrame(s.pending_shkvarkas[f.v.i]))}
    ELSE {Return([s EXCEPT !.pending_shkvarkas = <<>>], t, NoRet)}

(***************************************************************************)
(* The end of the game                                                     *)
(***************************************************************************)
\* _check_recipe_completion if it counted every card of the borsht
CheckRecipeCompletionAnyCard(s, p) ==
    Len(s.player_borsht[p]) >= RecipeSize(s.player_recipes[p])

\* _check_recipe_completion
CheckRecipeCompletion(s, p) ==
    LET Counts(c) == CardType(c) \in {"regular", "rare"} \/ CardId(c) = "vinnik_lard"
    IN  Len(SelectSeq(s.player_borsht[p], Counts)) >= RecipeSize(s.player_recipes[p])

\* the loop over sorted(recipe['levels'].items()) of _determine_winner
RECURSIVE RecipeBonus(_, _, _)
RecipeBonus(levels, completion_count, recipe_bonus) ==
    IF levels = <<>> THEN recipe_bonus
    ELSE RecipeBonus(Tail(levels), completion_count,
                     IF completion_count >= Head(levels)[1] THEN Head(levels)[2]
                     ELSE recipe_bonus)

\* final_score of _determine_winner
FinalScore(s, p) ==
    LET recipe == Recipes[s.player_recipes[p]]
        Completed(ing) == ing \in IdsOf(s.player_borsht[p]) \/ ing = "vinnik_lard"
        completion_count == Len(SelectSeq(recipe.ingredients, Completed))
    IN  SumPoints(s.player_borsht[p])
          + RecipeBonus(recipe.levels, completion_count, 0)
          + (IF p = s.first_finisher THEN 2 ELSE 0)

\* the loop "for player_id, score in scores.items()" of _determine_winner
RECURSIVE WinnerLoop(_, _, _, _, _, _, _)
WinnerLoop(ps, scores, hand_cost, ff, moves, max_score, winner_id) ==
    IF ps = <<>> THEN winner_id
    ELSE LET p == Head(ps)
             rest == Tail(ps)
         IN  IF scores[p] > max_score
             THEN WinnerLoop(rest, scores, hand_cost, ff, moves, scores[p], p)
             ELSE IF scores[p] = max_score
             THEN IF hand_cost[p] > hand_cost[winner_id]
                  THEN WinnerLoop(rest, scores, hand_cost, ff, moves, max_score, p)
                  ELSE IF p = ff
                  THEN WinnerLoop(rest, scores, hand_cost, ff, moves, max_score, p)
                  ELSE IF ff \notin {p, winner_id} /\ moves[p] < moves[winner_id]
                  THEN WinnerLoop(rest, scores, hand_cost, ff, moves, max_score, p)
                  ELSE WinnerLoop(rest, scores, hand_cost, ff, moves, max_score, winner_id)
             ELSE WinnerLoop(rest, scores, hand_cost, ff, moves, max_score, winner_id)

WinnerOf(ps, scores, hand_cost, ff, moves) ==
    WinnerLoop(ps, scores, hand_cost, ff, moves, -1, None)

\* _determine_winner
DetermineWinner(s) ==
    WinnerOf(s.players,
             [p \in PlayerSet(s) |-> FinalScore(s, p)],
             [p \in PlayerSet(s) |-> SumCost(s.player_hands[p])],
             s.first_finisher, s.moves_count)

\* self.is_game_over, self.winner = self.check_game_over()
CheckGameOver(s) ==
    LET done == {i \in 1..Len(s.players) : CheckRecipeCompletion(s, s.players[i])}
        first == CHOOSE i \in done : \A j \in done : i <= j
    IN  IF s.is_game_over
        THEN [s EXCEPT !.winner = DetermineWinner(s)]
        ELSE IF s.first_finisher # None
        THEN IF CurrentPlayerIdOf(s) = s.first_finisher
             THEN [s EXCEPT !.is_game_over = TRUE, !.winner = DetermineWinner(s)]
             ELSE [s EXCEPT !.is_game_over = FALSE, !.winner = None]
        ELSE IF done # {}
        THEN [s EXCEPT !.first_finisher = s.players[first],
                       !.is_game_over = FALSE, !.winner = None]
        ELSE [s EXCEPT !.is_game_over = FALSE, !.winner = None]

\* sum(self.moves_count.values())
RECURSIVE SumMoves(_, _)
SumMoves(mc, ps) == IF ps = <<>> THEN 0 ELSE mc[Head(ps)] + SumMoves(mc, Tail(ps))

\* the loop over sorted(recipe['levels'].items()) of calculate_scores, which
\* stops at the first level that is not reached
RECURSIVE RecipeBonusBreak(_, _, _)
RecipeBonusBreak(levels, completion_count, recipe_bonus) ==
    IF levels = <<>> THEN recipe_bonus
    ELSE IF completion_count >= Head(levels)[1]
    THEN RecipeBonusBreak(Tail(levels), completion_count, Head(levels)[2])
    ELSE recipe_bonus

\* calculate_scores
CalculateScores(s) ==
    [p \in PlayerSet(s) |->
       LET recipe == Recipes[s.player_recipes[p]]
           Completed(ing) == ing \in IdsOf(s.player_borsht[p]) \/ ing = "vinnik_lard"
           completion_count == Len(SelectSeq(recipe.ingredients, Completed))
       IN  SumPoints(s.player_borsht[p])
             + RecipeBonusBreak(recipe.levels, completion_count, 0)
             + (IF p = s.first_finisher THEN 2 ELSE 0)]

\* the entry of player_stats that get_game_stats builds for player p
PlayerStats(s, p, scores) ==
    LET recipe == Recipes[s.player_recipes[p]]
        InRecipe(c) == CardId(c) \in Range(recipe.ingredients) \/ CardId(c) = "vinnik_lard"
        completed_ingredients == SelectSeq(s.player_borsht[p], InRecipe)
    IN  [ completed_ingredients |-> Len(completed_ingredients),
          total_recipe_ingredients |-> Len(recipe.ingredients),
          ingredient_points |-> SumPoints(s.player_borsht[p]),
          recipe_bonus |-> RecipeBonus(recipe.levels, Len(completed_ingredients), 0),
          first_finisher_bonus |-> IF p = s.first_finisher THEN 2 ELSE 0,
          total_score |-> scores[p],
          moves_made |-> s.moves_count[p],
          final_hand_size |-> Len(s.player_hands[p]) ]

\* get_game_stats
GetGameStats(s) ==
    IF ~s.is_game_over THEN [error |-> "Game is not yet complete"]
    ELSE LET scores == CalculateScores(s)
         IN  [ total_rounds |-> SumMoves(s.moves_count, s.players),
               winner |-> s.winner,
               winner_score |-> scores[s.winner],
               scores |-> scores,
               player_stats |-> [p \in PlayerSet(s) |-> PlayerStats(s, p, scores)],
               first_finisher |-> s.first_finisher,
               cards_remaining_in_deck |-> Len(s.deck),
               cards_in_discard |-> Len(s.discard_pile),
               active_shkvarkas |-> Len(s.active_shkvarkas),
               player_count |-> Len(s.players) ]

\* AbstractGameManager.next_player
NextPlayer(s) ==
    [s EXCEPT !.current_player_index = (@ + 1) % Len(s.players)]

(***************************************************************************)
(* process_move and _process_move                                          *)
(***************************************************************************)
\* process_move if it told the end of the game whatever the move's success
ProcessMoveReturnAlways(s, p, m, success, error_message) ==
    LET s1 == IF s.is_game_over
              THEN [Broadcast(s) EXCEPT !.ended = Append(@, GetGameStats(s))]
              ELSE IF ~success THEN Send(s, p)
              ELSE s
    IN  [s1 EXCEPT !.returned = Append(@, [player |-> p, ok |-> success,
                                           err |-> error_message])]

\* AbstractGameManager.process_move, once _process_move has returned
ProcessMoveReturn(s, p, m, success, error_message) ==
    LET s1 == IF ~success THEN Send(s, p)
              ELSE IF s.is_game_over
              THEN [Broadcast(s) EXCEPT !.ended = Append(@, GetGameStats(s))]
              ELSE s
    IN  [s1 EXCEPT !.returned = Append(@, [player |-> p, ok |-> success,
                                           err |-> error_message])]

MoveFrame(p, m) ==
    Frame("move", "dispatch",
          [player |-> p, m |-> m, success |-> FALSE, error_message |-> "none"])

\* the handler has returned (success, error_message, is_move_continues)
MoveHandled(s, t, f, success, error_message, is_move_continues) ==
    GotoWith(s, t, IF is_move_continues THEN "continues" ELSE "hand_limit",
             [f.v EXCEPT !.success = success, !.error_message = error_message])

\* _process_move, lines 270-302.  The branch of line 296 tests
\* self.game_state, which is never a turn state: it is never taken.
MoveDispatch(s, t, f) ==
    LET p == f.v.player
        m == f.v.m
        Arg == [player |-> p, m |-> m]
    IN  IF m.action = ADD_INGREDIENT /\ s.turn_state = NORMAL_TURN
        THEN LET r == HandleAddIngredient(s, p, m)
             IN  {MoveHandled(r.s, t, f, r.ok, r.err, FALSE)}
        ELSE IF m.action = DRAW_CARDS /\ s.turn_state = NORMAL_TURN
        THEN {MoveHandled(r.s, t, f, r.ok, r.err, FALSE) : r \in HandleDrawCards(s, p)}
        ELSE IF m.action = PLAY_SPECIAL /\ s.turn_state = NORMAL_TURN
        THEN {Call(s, t, "handled", Frame("special", "start", Arg))}
        ELSE IF /\ m.action = EXCHANGE_INGREDIENTS
                /\ s.turn_state \in {NORMAL_TURN, WAITING_FOR_EXCHANGE}
        THEN {Call(s, t, "handled", Frame("exchange", "start", Arg))}
        ELSE IF m.action = SKIP /\ s.turn_state = WAITING_FOR_EXCHANGE
        THEN {MoveHandled(s, t, f, TRUE, "none", FALSE)}
        ELSE IF m.action = FREE_MARKET_REFRESH
        THEN {MoveHandled(Broadcast(r.s), t, f, r.ok, r.err, TRUE)
                : r \in HandleFreeMarketRefresh(s)}
        ELSE {MoveHandled(s, t, f, FALSE, "Invalid action type", TRUE)}

MoveAfterHandler(s, t, f) ==
    LET r == s.tasks[t].ret IN {MoveHandled(s, t, f, r.ok, r.err, r.cont)}

MoveContinues(s, t, f) == {Call(s, t, "return", ProcessShkvarkasFrame)}

MoveHandLimit(s, t, f) == {Call(s, t, "after_hand_limit", HandLimitFrame(f.v.player))}

MoveAfterHandLimit(s, t, f) ==
    LET r == s.tasks[t].ret
        s1 == IF r.ok THEN [s EXCEPT !.player_hands[f.v.player] = r.cards] ELSE s
    IN  {Call(s1, t, "after_shkvarkas", ProcessShkvarkasFrame)}

\* _process_move, lines 315-344
MoveAfterShkvarkas(s, t, f) ==
    LET p == f.v.player
        s1 == IF CheckRecipeCompletion(s, p) /\ s.first_finisher = None
              THEN LogBroadcast([s EXCEPT !.first_finisher = p], "recipe_completed")
              ELSE s
        s2 == IF f.v.success /\ ~s1.is_game_over
              THEN LogBroadcast(
                       CheckGameOver([NextPlayer(s1) EXCEPT !.turn_state = NORMAL_TURN]),
                       "new_turn")
              ELSE s1
    IN  {Goto(Broadcast(s2), t, "return")}

MoveReturn(s, t, f) ==
    {ProcessMoveReturn([s EXCEPT !.tasks = WithoutKey(@, t)],
                       f.v.player, f.v.m, f.v.success, f.v.error_message)}

(***************************************************************************)
(* The event loop: a coroutine runs until it returns or awaits a future.   *)
(***************************************************************************)
\* the tasks are created and not awaited
BlockedOnRequestOnly(s, t) == Top(s, t).fn = "request" /\ Top(s, t).pc = "wait"

\* the coroutine awaits a future that is not resolved, or a task that is
\* not done
Blocked(s, t) ==
    LET f == Top(s, t)
    IN  \/ f.fn = "request" /\ f.pc = "wait"
        \/ /\ f.fn = "porvalas" /\ f.pc = "join"
           /\ f.v.i <= Len(f.v.children)
           /\ f.v.children[f.v.i] \in DOMAIN s.tasks

StepTask(s, t) ==
    LET f == Top(s, t)
        at == <<f.fn, f.pc>>
    IN  CASE at = <<"move", "dispatch">> -> MoveDispatch(s, t, f)
          [] at = <<"move", "handled">> -> MoveAfterHandler(s, t, f)
          [] at = <<"move", "continues">> -> MoveContinues(s, t, f)
          [] at = <<"move", "hand_limit">> -> MoveHandLimit(s, t, f)
          [] at = <<"move", "after_hand_limit">> -> MoveAfterHandLimit(s, t, f)
          [] at = <<"move", "after_shkvarkas">> -> MoveAfterShkvarkas(s, t, f)
          [] at = <<"move", "return">> -> MoveReturn(s, t, f)
          [] at = <<"special", "start">> -> SpecialStart(s, t, f)
          [] at = <<"special", "after_effect">> -> SpecialAfterEffect(s, t, f)
          [] at = <<"chili", "start">> -> ChiliStart(s, t, f)
          [] at = <<"chili", "after_defense">> -> ChiliAfterDefense(s, t, f)
          [] at = <<"ginger", "start">> -> GingerStart(s, t, f)
          [] at = <<"ginger", "after_selection">> -> GingerAfterSelection(s, t, f)
          [] at = <<"olive_oil", "start">> -> OliveOilStart(s, t, f)
          [] at = <<"olive_oil", "after_selection">> -> OliveOilAfterSelection(s, t, f)
          [] at = <<"exchange", "start">> -> ExchangeStart(s, t, f)
          [] at = <<"exchange", "after_market_limit">> -> ExchangeAfterMarketLimit(s, t, f)
          [] at = <<"market_limit", "start">> -> MarketLimitStart(s, t, f)
          [] at = <<"market_limit", "after_selection">> -> MarketLimitAfterSelection(s, t, f)
          [] at = <<"hand_limit", "start">> -> HandLimitStart(s, t, f)
          [] at = <<"hand_limit", "after_selection">> -> HandLimitAfterSelection(s, t, f)
          [] at = <<"selection", "start">> -> SelectionStart(s, t, f)
          [] at = <<"selection", "after_request">> -> SelectionAfterRequest(s, t, f)
          [] at = <<"defense", "start">> -> DefenseStart(s, t, f)
          [] at = <<"defense", "after_request">> -> DefenseAfterRequest(s, t, f)
          [] at = <<"request", "start">> -> RequestStart(s, t, f)
          [] at = <<"process_shkvarkas", "loop">> -> ProcessShkvarkasLoop(s, t, f)
          [] at = <<"shkvarka", "start">> -> ShkvarkaStart(s, t, f)
          [] at = <<"shkvarka", "after_handler">> -> ShkvarkaAfterHandler(s, t, f)
          [] at = <<"porvalas", "join">> -> PorvalasJoin(s, t, f)
          [] at = <<"porvalas_player", "start">> -> PorvalasPlayerStart(s, t, f)
          [] at = <<"porvalas_player", "after_hand_limit">> ->
                PorvalasPlayerAfterHandLimit(s, t, f)

\* the task that awaits task t, None when t is a move
ParentOf(s, t) ==
    LET f == s.tasks[t].stack[1]
    IN  IF f.fn = "porvalas_player" THEN f.v.parent ELSE None

\* the tasks that task t has created and that have not run yet
NewTasks(s, t) ==
    LET f == Top(s, t)
    IN  IF f.fn = "porvalas" /\ ~f.v.started THEN f.v.children ELSE <<>>

\* The loop runs task t until it returns or is blocked.  Tasks that t has
\* created run, in the order of their creation, when t first awaits; a task
\* that ends wakes the task that awaits it.
RECURSIVE Run(_, _)
RECURSIVE RunEach(_, _)
Run(s, t) ==
    IF t \notin DOMAIN s.tasks THEN {s}
    ELSE IF NewTasks(s, t) # <<>>
    THEN RunEach({GotoWith(s, t, "join", [Top(s, t).v EXCEPT !.started = TRUE])},
                 NewTasks(s, t))
    ELSE IF Blocked(s, t) THEN {s}
    ELSE UNION { IF t \notin DOMAIN x.tasks /\ ParentOf(s, t) # None
                 THEN Run(x, ParentOf(s, t))
                 ELSE Run(x, t) : x \in StepTask(s, t) }

RunEach(S, ts) ==
    IF ts = <<>> THEN S
    ELSE RunEach(UNION {Run(x, Head(ts)) : x \in S}, Tail(ts))

\* process_move without the check of the end of the game
ProcessMoveCallAfterEnd(s, p, m) ==
    LET t == SmallestNotIn(DOMAIN s.tasks)
        task == [stack |-> <<MoveFrame(p, m)>>, ret |-> NoRet]
        Reject(e) == {ProcessMoveReturn(s, p, m, FALSE, e)}
    IN  IF p # CurrentPlayerIdOf(s) THEN Reject("Not your turn")
        ELSE IF s.first_finisher # None /\ m.target_player = s.first_finisher
        THEN Reject("Cannot target a player who has completed their recipe")
        ELSE IF "action" \notin m.fields THEN Reject("Invalid move data, action required")
        ELSE Run([s EXCEPT !.moves_count[p] = @ + 1, !.tasks = (t :> task) @@ @], t)

\* process_move without the check of whose turn it is
ProcessMoveCallAnyTurn(s, p, m) ==
    LET t == SmallestNotIn(DOMAIN s.tasks)
        task == [stack |-> <<MoveFrame(p, m)>>, ret |-> NoRet]
        Reject(e) == {ProcessMoveReturn(s, p, m, FALSE, e)}
    IN  IF s.is_game_over THEN Reject("Game is already over")
        ELSE IF s.first_finisher # None /\ m.target_player = s.first_finisher
        THEN Reject("Cannot target a player who has completed their recipe")
        ELSE IF "action" \notin m.fields THEN Reject("Invalid move data, action required")
        ELSE Run([s EXCEPT !.moves_count[p] = @ + 1, !.tasks = (t :> task) @@ @], t)

\* _process_move, lines 246-268, then the coroutine runs
ProcessMoveCall(s, p, m) ==
    LET t == SmallestNotIn(DOMAIN s.tasks)
        task == [stack |-> <<MoveFrame(p, m)>>, ret |-> NoRet]
        Reject(e) == {ProcessMoveReturn(s, p, m, FALSE, e)}
    IN  IF p # CurrentPlayerIdOf(s) THEN Reject("Not your turn")
        ELSE IF s.is_game_over THEN Reject("Game is already over")
        ELSE IF s.first_finisher # None /\ m.target_player = s.first_finisher
        THEN Reject("Cannot target a player who has completed their recipe")
        ELSE IF "action" \notin m.fields THEN Reject("Invalid move data, action required")
        ELSE Run([s EXCEPT !.moves_count[p] = @ + 1, !.tasks = (t :> task) @@ @], t)

(***************************************************************************)
(* What the players can send.                                              *)
(***************************************************************************)
\* the move_data tried for player p: every action, with and without its
\* fields, with cards that are and are not where the move says
MovesOf(s, p) ==
    LET hand == Range(s.player_hands[p])
        Action(a) == [NoMove EXCEPT !.fields = {"action"}, !.action = a]
        WithCard(a, c) ==
            [NoMove EXCEPT !.fields = {"action", "card_id"}, !.action = a, !.card_id = c]
        Chili(c, q, tc, at) ==
            [NoMove EXCEPT !.fields = {"action", "card_id", "target_player",
                                       "target_cards", "action_type"},
                           !.action = PLAY_SPECIAL, !.card_id = c, !.target_player = q,
                           !.target_cards = <<tc>>, !.action_type = at]
        Exchange(hc, mc) ==
            [NoMove EXCEPT !.fields = {"action", "hand_cards", "market_cards"},
                           !.action = EXCHANGE_INGREDIENTS,
                           !.hand_cards = hc, !.market_cards = mc]
        offered == IF Len(s.market) >= 2
                   THEN {<<s.market[1]>>, <<s.market[1], s.market[2]>>}
                   ELSE {<<NoSuchUid>>}
    IN  IF p # CurrentPlayerIdOf(s)
        THEN {NoMove, Action(DRAW_CARDS), Action(FREE_MARKET_REFRESH)}
        ELSE {NoMove, Action("dance"), Action(ADD_INGREDIENT), Action(DRAW_CARDS),
              Action(SKIP), Action(FREE_MARKET_REFRESH)}
             \cup {WithCard(ADD_INGREDIENT, c) : c \in hand \cup {NoSuchUid}}
             \cup {WithCard(PLAY_SPECIAL, c)
                     : c \in {x \in hand : /\ CardType(x) = "special"
                                           /\ CardEffect(x) # "steal_or_discard"}
                             \cup {NoSuchUid}}
             \cup UNION {{Chili(c, q, tc, at)
                            : c \in {x \in hand : CardEffect(x) = "steal_or_discard"},
                              tc \in Range(s.player_borsht[q]) \cup {NoSuchUid},
                              at \in {"steal", "discard"}}
                           : q \in PlayerSet(s)}
             \cup {Exchange(<<h>>, mc) : h \in hand \cup {NoSuchUid}, mc \in offered}

\* the sequences of at most n elements of S, repetitions included
RECURSIVE SeqsUpTo(_, _)
SeqsUpTo(S, n) ==
    IF n = 0 THEN {<<>>}
    ELSE SeqsUpTo(S, n - 1) \cup {Append(q, x) : q \in SeqsUpTo(S, n - 1), x \in S}

\* the exchange payloads tried for player p: lists of up to MaxListed uids
\* of the hand and of the market, in every order, with uids listed twice
\* and uids of no card, and payloads that lack a list
ExchangeMovesOf(s, p) ==
    LET Payload(fs, hc, mc) ==
            [NoMove EXCEPT !.fields = {"action"} \cup fs,
                           !.action = EXCHANGE_INGREDIENTS,
                           !.hand_cards = hc, !.market_cards = mc]
        hand == Range(s.player_hands[p]) \cup {NoSuchUid}
        mkt == Range(s.market) \cup {NoSuchUid}
    IN  {Payload({"hand_cards", "market_cards"}, hc, mc)
           : hc \in SeqsUpTo(hand, MaxListed), mc \in SeqsUpTo(mkt, MaxListed)}
        \cup {Payload({"hand_cards"}, <<h>>, <<>>) : h \in hand}
        \cup {Payload({"market_cards"}, <<>>, <<c>>) : c \in mkt}

\* the responses tried for a pending request
ResponsesTo(req) ==
    IF req.type = "defense_request"
    THEN {[NoRet EXCEPT !.use_defense = b] : b \in BOOLEAN}
    ELSE {[NoRet EXCEPT !.selected = DropPositions(req.cards, (1..Len(req.cards)) \ I)]
            : I \in Subsets(1..Len(req.cards), req.select_count)}
         \cup {[NoRet EXCEPT !.random_select = TRUE],
               [NoRet EXCEPT !.selected = <<>>],
               [NoRet EXCEPT !.selected = [i \in 1..req.select_count |-> NoSuchUid]]}

NoRequest ==
    [player |-> None, type |-> "", cards |-> <<>>, select_count |-> 0, task |-> 0]

\* the label of a step
Event(kind, p, action, rid, req, response, x) ==
    [ kind |-> kind, player |-> p, action |-> action, request_id |-> rid,
      request |-> req, response |-> response, returned |-> x.returned,
      notified |-> x.notified, resolved |-> x.resolved, created |-> x.created,
      ended |-> x.ended ]

(***************************************************************************)
(* dump and load.  The snapshot is stored as JSON text: the keys of its    *)
(* dictionaries are strings when it is read back.                          *)
(***************************************************************************)
Digits == <<"1", "2", "3">>

\* json.dumps on a dictionary keyed by player id
JsonKeys(f) == [k \in {Digits[p] : p \in DOMAIN f} |->
                  f[CHOOSE p \in DOMAIN f : Digits[p] = k]]

\* instance.attr[int(key)] = temp[key]
IntKeys(d) == [p \in {CHOOSE q \in DOMAIN Digits : Digits[q] = k : k \in DOMAIN d} |->
                 d[Digits[p]]]

\* AbstractGameManager.dump
BaseDump(s) ==
    [ current_player_index |-> s.current_player_index,
      is_game_over |-> s.is_game_over,
      winner |-> s.winner,
      game_messages |-> s.game_messages,
      pending_requests |-> s.pending_requests,
      sent_requests |-> s.sent_requests ]

\* BorshtManager.dump: its own fields, and the base fields under "base"
Dump(s) ==
    [ base |-> BaseDump(s),
      game_settings |-> s.game_settings,
      turn_state |-> s.turn_state,
      market |-> s.market,
      deck |-> s.deck,
      discard_pile |-> s.discard_pile,
      pending_shkvarkas |-> s.pending_shkvarkas,
      recipes_revealed |-> s.recipes_revealed,
      first_finisher |-> s.first_finisher,
      active_shkvarkas |-> s.active_shkvarkas,
      player_recipes |-> JsonKeys(s.player_recipes),
      player_borsht |-> JsonKeys(s.player_borsht),
      player_hands |-> JsonKeys(s.player_hands),
      moves_count |-> JsonKeys(s.moves_count) ]

\* GameSettings.__init__: the saved values, then market_base_capacity
GameSettingsOf(saved) == [saved EXCEPT !.market_base_capacity = saved.market_capacity]

\* cls(db, room, connection_manager, game_settings): a session as the
\* constructors leave it, for the roster of the room
NewInstance(roster, settings) ==
    [ players |-> roster, deck |-> <<>>, market |-> <<>>, discard_pile |-> <<>>,
      player_hands |-> <<>>, player_borsht |-> <<>>, player_recipes |-> <<>>,
      moves_count |-> [p \in Range(roster) |-> 0], turn_state |-> NORMAL_TURN,
      current_player_index |-> 0, is_game_over |-> FALSE, winner |-> None,
      first_finisher |-> None, pending_shkvarkas |-> <<>>,
      active_shkvarkas |-> <<>>, recipes_revealed |-> FALSE,
      game_settings |-> GameSettingsOf(settings),
      pending_requests |-> <<>>, sent_requests |-> <<>>, game_messages |-> <<>>,
      tasks |-> <<>>,
      notified |-> {}, returned |-> <<>>, resolved |-> <<>>, created |-> {},
      ended |-> <<>> ]

\* AbstractGameManager.load: the base fields restored into x
BaseLoad(x, saved) ==
    [x EXCEPT !.current_player_index = saved.base.current_player_index,
              !.is_game_over = saved.base.is_game_over,
              !.winner = saved.base.winner,
              !.game_messages = saved.base.game_messages,
              !.pending_requests = saved.base.pending_requests,
              !.sent_requests = saved.base.sent_requests]

\* the Borsht fields restored into x, the player state left as constructed
RestoreWithoutPlayerState(x, saved) ==
    [x EXCEPT !.turn_state = saved.turn_state,
              !.market = saved.market,
              !.deck = saved.deck,
              !.discard_pile = saved.discard_pile,
              !.pending_shkvarkas = saved.pending_shkvarkas,
              !.recipes_revealed = saved.recipes_revealed,
              !.first_finisher = saved.first_finisher,
              !.active_shkvarkas = saved.active_shkvarkas]

\* BorshtManager.load, lines 2506-2530: the Borsht fields restored into x
Restore(x, saved) ==
    [x EXCEPT !.turn_state = saved.turn_state,
              !.market = saved.market,
              !.deck = saved.deck,
              !.discard_pile = saved.discard_pile,
              !.pending_shkvarkas = saved.pending_shkvarkas,
              !.recipes_revealed = saved.recipes_revealed,
              !.first_finisher = saved.first_finisher,
              !.active_shkvarkas = saved.active_shkvarkas,
              !.player_recipes = IntKeys(saved.player_recipes) @@ @,
              !.player_borsht = IntKeys(saved.player_borsht) @@ @,
              !.player_hands = IntKeys(saved.player_hands) @@ @,
              !.moves_count = IntKeys(saved.moves_count) @@ @]

\* BorshtManager.load.  Line 2504 calls the load of the base class, which
\* builds an instance of its own (abstract_game.py line 181), restores the
\* base fields into that one and returns it; the result is dropped, and
\* the instance that load returns keeps the base fields of its constructor.
Load(roster, saved) ==
    LET instance == NewInstance(roster, saved.game_settings)
        dropped == BaseLoad(NewInstance(roster, DefaultSettings), saved)
    IN  Restore(instance, saved)

(***************************************************************************)
(* Actions                                                                 *)
(***************************************************************************)
\* a client sends a move: process_move runs until it returns or awaits
ProcessMove(p, m) ==
    /\ SumMoves(moves_count, players) < MaxMoves
    /\ \E x \in ProcessMoveCall(State, p, m) :
          /\ Commit(x)
          /\ event' = Event("move", p, m.action, None, NoRequest, NoRet, x)
    /\ UNCHANGED <<fn_in, fn_out>>

\* the player answers request rid: the awaiting coroutine goes on
Respond(rid, response) ==
    /\ rid \in DOMAIN pending_requests
    /\ response \in ResponsesTo(pending_requests[rid])
    /\ \E x \in Run(RequestResume(State, rid, response), pending_requests[rid].task) :
          /\ Commit(x)
          /\ event' = Event("respond", pending_requests[rid].player, "", rid,
                            pending_requests[rid], response, x)
    /\ UNCHANGED <<fn_in, fn_out>>

\* asyncio.wait_for gives up on request rid
Timeout(rid) ==
    /\ rid \in DOMAIN pending_requests
    /\ \E x \in Run(RequestResume(State, rid, [NoRet EXCEPT !.timed_out = TRUE]),
                    pending_requests[rid].task) :
          /\ Commit(x)
          /\ event' = Event("timeout", pending_requests[rid].player, "", rid,
                            pending_requests[rid], [NoRet EXCEPT !.timed_out = TRUE], x)
    /\ UNCHANGED <<fn_in, fn_out>>

\* a client sends an add_ingredient move that the handler accepts, and the
\* delivery of the ingredient_added message fails
ProcessMoveDeliveryFails(p, m) ==
    /\ SumMoves(moves_count, players) < MaxMoves
    /\ p = CurrentPlayerIdOf(State)
    /\ ~is_game_over
    /\ ~(first_finisher # None /\ m.target_player = first_finisher)
    /\ "action" \in m.fields
    /\ m.action = ADD_INGREDIENT
    /\ turn_state = NORMAL_TURN
    /\ HandleAddIngredient(State, p, m).ok
    /\ Commit(AddIngredientBroadcastRaises(State, p, m))
    /\ event' = Event("delivery_fails", p, m.action, None, NoRequest, NoRet,
                      AddIngredientBroadcastRaises(State, p, m))
    /\ UNCHANGED <<fn_in, fn_out>>

\* the player to move sends an exchange, in a turn state that line 285
\* passes to _handle_exchange; fn_in is the payload and fn_out what
\* _handle_exchange has done when the swap is over
ProcessExchange(p, m) ==
    /\ SumMoves(moves_count, players) < MaxMoves
    /\ tasks = <<>>
    /\ p = CurrentPlayerIdOf(State)
    /\ ~is_game_over
    /\ turn_state \in {NORMAL_TURN, WAITING_FOR_EXCHANGE}
    /\ \E x \in ProcessMoveCall(State, p, m) :
          /\ Commit(x)
          /\ event' = Event("exchange", p, m.action, None, NoRequest, NoRet, x)
    /\ fn_in' = m
    /\ fn_out' = HandleExchange(State, p, m)

\* _get_cards_from_deck(n) is called: fn_in is n, fn_out the cards returned
GetCardsCall(n) ==
    /\ \E r \in GetCardsFromDeck(State, n) :
          /\ Commit(r.s)
          /\ event' = Event("get_cards", None, "", None, NoRequest, NoRet, r.s)
          /\ fn_out' = r.cards
    /\ fn_in' = n

\* _handle_draw_cards is called for player p: fn_out is its success
DrawCardsCall(p) ==
    /\ \E r \in HandleDrawCards(State, p) :
          /\ Commit(r.s)
          /\ event' = Event("draw_cards", p, DRAW_CARDS, None, NoRequest, NoRet, r.s)
          /\ fn_out' = r.ok
    /\ fn_in' = game_settings.cards_to_draw

\* get_state shows the other players' recipes whether revealed or not
GetStateShowsRecipes(s, player_id) ==
    [ current_player |-> CurrentPlayerIdOf(s),
      is_game_over |-> s.is_game_over,
      game_ending |-> s.first_finisher # None,
      first_finisher |-> s.first_finisher,
      market_limit |-> s.game_settings.market_capacity,
      recipes_revealed |-> s.recipes_revealed,
      cards_in_deck |-> Len(s.deck),
      turn_state |-> IF player_id = CurrentPlayerIdOf(s) THEN s.turn_state ELSE "",
      market |-> s.market,
      free_refresh |-> IsMarketFreeRefreshAvailable(s),
      market_exchange_fee |-> s.game_settings.market_exchange_tax,
      discard_pile_size |-> Len(s.discard_pile),
      discard_pile_top |-> IF s.discard_pile # <<>>
                           THEN s.discard_pile[Len(s.discard_pile)] ELSE None,
      your_hand |-> s.player_hands[player_id],
      your_borsht |-> s.player_borsht[player_id],
      your_recipe |-> s.player_recipes[player_id],
      hand_cards_limit |-> s.game_settings.player_hand_limit,
      market_base_limit |-> s.game_settings.market_base_capacity,
      chili_pepper_discard_count |-> s.game_settings.chili_pepper_discard_count,
      extra_cards_not_allowed |-> ~s.game_settings.extra_cards_allowed,
      players |-> [pid \in PlayerSet(s) \ {player_id} |->
                     [hand_size |-> Len(s.player_hands[pid]),
                      borsht |-> s.player_borsht[pid],
                      recipe |-> s.player_recipes[pid]]],
      active_shkvarkas |-> s.active_shkvarkas ]

\* get_state of a started session (is_started is set); game_ending is set
\* together with first_finisher (line 321).  An entry of players has no
\* recipe unless the recipes are revealed.
GetState(s, player_id) ==
    [ current_player |-> CurrentPlayerIdOf(s),
      is_game_over |-> s.is_game_over,
      game_ending |-> s.first_finisher # None,
      first_finisher |-> s.first_finisher,
      market_limit |-> s.game_settings.market_capacity,
      recipes_revealed |-> s.recipes_revealed,
      cards_in_deck |-> Len(s.deck),
      turn_state |-> IF player_id = CurrentPlayerIdOf(s) THEN s.turn_state ELSE "",
      market |-> s.market,
      free_refresh |-> IsMarketFreeRefreshAvailable(s),
      market_exchange_fee |-> s.game_settings.market_exchange_tax,
      discard_pile_size |-> Len(s.discard_pile),
      discard_pile_top |-> IF s.discard_pile # <<>>
                           THEN s.discard_pile[Len(s.discard_pile)] ELSE None,
      your_hand |-> s.player_hands[player_id],
      your_borsht |-> s.player_borsht[player_id],
      your_recipe |-> s.player_recipes[player_id],
      hand_cards_limit |-> s.game_settings.player_hand_limit,
      market_base_limit |-> s.game_settings.market_base_capacity,
      chili_pepper_discard_count |-> s.game_settings.chili_pepper_discard_count,
      extra_cards_not_allowed |-> ~s.game_settings.extra_cards_allowed,
      players |-> [pid \in PlayerSet(s) \ {player_id} |->
                     IF s.recipes_revealed
                     THEN [hand_size |-> Len(s.player_hands[pid]),
                           borsht |-> s.player_borsht[pid],
                           recipe |-> s.player_recipes[pid]]
                     ELSE [hand_size |-> Len(s.player_hands[pid]),
                           borsht |-> s.player_borsht[pid]]],
      active_shkvarkas |-> s.active_shkvarkas ]

\* a session that differs from s in a part that player q or nobody sees:
\* the first card of q's hand and the top card of the deck change places,
\* the deck is turned over, the bottom card of the discard pile and the top
\* card of the deck change places, q has another recipe, or the bottom
\* card of the discard pile is missing
VariantKinds == {"hand", "deck", "discard", "recipe", "discard_size"}

Variant(s, q, kind) ==
    CASE kind = "hand" ->
           IF s.player_hands[q] # <<>> /\ s.deck # <<>>
           THEN [s EXCEPT !.player_hands[q][1] = s.deck[1],
                          !.deck[1] = s.player_hands[q][1]]
           ELSE s
      [] kind = "deck" -> [s EXCEPT !.deck = [i \in 1..Len(@) |-> @[Len(@) + 1 - i]]]
      [] kind = "discard" ->
           IF Len(s.discard_pile) >= 2 /\ s.deck # <<>>
           THEN [s EXCEPT !.discard_pile[1] = s.deck[1], !.deck[1] = s.discard_pile[1]]
           ELSE s
      [] kind = "recipe" ->
           [s EXCEPT !.player_recipes[q] =
                       IF @ = "r_carrot_beet" THEN "r_onion_carrot" ELSE "r_carrot_beet"]
      [] OTHER ->
           IF Len(s.discard_pile) >= 2 THEN [s EXCEPT !.discard_pile = Tail(@)] ELSE s

\* get_state(p) is called in the session and in a variant of it: fn_in is
\* the kind of the variant, fn_out the two snapshots
GetStateCall(p, kind) ==
    /\ \E q \in Range(players) \ {p} :
          /\ Variant(State, q, kind) # State
          /\ fn_out' = <<GetState(State, p), GetState(Variant(State, q, kind), p)>>
    /\ fn_in' = kind
    /\ Commit(State)
    /\ event' = Event("get_state", p, "", None, NoRequest, NoRet, State)

\* _handle_market_refill is called before the first move, as initialize_game
\* calls it: fn_in is the size of the market before, fn_out the size after
MarketRefillCall ==
    /\ tasks = <<>>
    /\ game_messages = <<>>
    /\ \E s \in HandleMarketRefill(State) :
          /\ Commit(s)
          /\ event' = Event("market_refill", None, "", None, NoRequest, NoRet, s)
          /\ fn_out' = Len(s.market)
    /\ fn_in' = Len(market)

\* the session is suspended and resumed: the snapshot of dump is loaded
\* for the same room.  The label of the step names a request that was
\* outstanding when the snapshot was taken, if there is one.
Reload ==
    /\ event.kind # "load"
    /\ LET rid == IF pending_requests = <<>> THEN None
                  ELSE CHOOSE r \in DOMAIN pending_requests :
                          \A q \in DOMAIN pending_requests : r <= q
           req == IF rid = None THEN NoRequest ELSE pending_requests[rid]
           x == Load(players, Dump(State))
       IN  /\ Commit(x)
           /\ event' = Event("load", None, "", rid, req, NoRet, x)
    /\ UNCHANGED <<fn_in, fn_out>>

\* the response to request rid reaches the session after the request has
\* timed out: its slot is gone, and the response is dropped
LateResponse(rid, response) ==
    /\ event.kind = "timeout"
    /\ rid = event.request_id
    /\ rid \notin DOMAIN pending_requests
    /\ response \in ResponsesTo(event.request)
    /\ Commit(State)
    /\ event' = Event("late_response", event.player, "", rid, event.request,
                      response, State)
    /\ UNCHANGED <<fn_in, fn_out>>

\* the deadline of request rid passes after the request has been answered:
\* asyncio.wait_for has returned, and nothing waits for the timer
LateTimer(rid) ==
    /\ event.kind = "respond"
    /\ rid = event.request_id
    /\ rid \notin DOMAIN pending_requests
    /\ Commit(State)
    /\ event' = Event("late_timer", event.player, "", rid, event.request,
                      [NoRet EXCEPT !.timed_out = TRUE], State)
    /\ UNCHANGED <<fn_in, fn_out>>

(***************************************************************************)
(* Sessions.  Each is a session as initialize_game or load leaves it, cut  *)
(* down to a few cards: the deck is in one of the orders the shuffle can   *)
(* give, and the capacities are small so that the limits are met.          *)
(***************************************************************************)
SmallSettings ==
    [DefaultSettings EXCEPT !.market_capacity = 3, !.market_base_capacity = 3,
                            !.player_hand_limit = 3,
                            !.olive_oil_look_count = 2, !.olive_oil_select_count = 1,
                            !.ginger_select_count = 1]

\* olive oil in hand, a deck deeper than the look
SessionOliveOil ==
    [ players |-> <<1, 2>>,
      deck |-> <<5, 17, 7, 18, 6>>,
      market |-> <<2, 3, 16>>,
      hands |-> (1 :> <<8, 1>>) @@ (2 :> <<4, 12>>),
      borsht |-> (1 :> <<>>) @@ (2 :> <<>>),
      recipes |-> (1 :> "r_onion_carrot") @@ (2 :> "r_carrot_beet"),
      settings |-> SmallSettings ]

\* player 1 is one card from completing; zgorila_zasmazhka is on the deck
SessionLastRound ==
    [ players |-> <<1, 2>>,
      deck |-> <<13, 17, 7, 18>>,
      market |-> <<2, 3, 16>>,
      hands |-> (1 :> <<4>>) @@ (2 :> <<5, 11>>),
      borsht |-> (1 :> <<1>>) @@ (2 :> <<6>>),
      recipes |-> (1 :> "r_onion_carrot") @@ (2 :> "r_carrot_beet"),
      settings |-> SmallSettings ]

\* three onions on the market; ginger, chili and paprika against sour cream
SessionMarket ==
    [ players |-> <<1, 2>>,
      deck |-> <<5, 17, 7, 4>>,
      market |-> <<1, 2, 3>>,
      hands |-> (1 :> <<10, 11, 9>>) @@ (2 :> <<12>>),
      borsht |-> (1 :> <<>>) @@ (2 :> <<6>>),
      recipes |-> (1 :> "r_onion_potato_beet") @@ (2 :> "r_carrot_beet"),
      settings |-> SmallSettings ]

\* three players; garmyder_na_kuhni is on the deck
SessionGarmyder ==
    [ players |-> <<1, 2, 3>>,
      deck |-> <<15, 5, 17, 7>>,
      market |-> <<16, 18, 8>>,
      hands |-> (1 :> <<1>>) @@ (2 :> <<2>>) @@ (3 :> <<3>>),
      borsht |-> (1 :> <<>>) @@ (2 :> <<>>) @@ (3 :> <<4, 6>>),
      recipes |-> (1 :> "r_carrot_beet") @@ (2 :> "r_onion_potato_beet")
                  @@ (3 :> "r_onion_carrot_potato_beet"),
      settings |-> SmallSettings ]

\* postachalnyk_pereplutav is on the deck, with cards enough for its deal
SessionPostachalnyk ==
    [ players |-> <<1, 2>>,
      deck |-> <<14, 1, 2, 3, 4, 5, 6, 7, 16, 17, 18, 8, 9>>,
      market |-> <<10, 11, 12>>,
      hands |-> (1 :> <<>>) @@ (2 :> <<>>),
      borsht |-> (1 :> <<>>) @@ (2 :> <<>>),
      recipes |-> (1 :> "r_onion_carrot") @@ (2 :> "r_carrot_beet"),
      settings |-> [SmallSettings EXCEPT !.player_hand_limit = 4] ]

\* three players; porvalas_torbynka is on the deck: player 1 stays within
\* the new hand limit, players 2 and 3 are asked at once to discard
SessionPorvalas ==
    [ players |-> <<1, 2, 3>>,
      deck |-> <<19, 5, 17, 7>>,
      market |-> <<12>>,
      hands |-> (1 :> <<1>>) @@ (2 :> <<2, 4, 6, 16, 18>>) @@ (3 :> <<3, 8, 9, 10, 11>>),
      borsht |-> (1 :> <<>>) @@ (2 :> <<>>) @@ (3 :> <<>>),
      recipes |-> (1 :> "r_carrot_beet") @@ (2 :> "r_onion_potato_beet")
                  @@ (3 :> "r_onion_carrot_potato_beet"),
      settings |-> [SmallSettings EXCEPT !.player_hand_limit = 6] ]

Sessions ==
    {SessionOliveOil, SessionLastRound, SessionMarket, SessionGarmyder,
     SessionPostachalnyk}

NoEvent ==
    [ kind |-> "init", player |-> None, action |-> "", request_id |-> None,
      request |-> NoRequest, response |-> NoRet, returned |-> <<>>,
      notified |-> {}, resolved |-> <<>>, created |-> {}, ended |-> <<>> ]

\* BorshtManager.__init__ and initialize_game
InitSession(g) ==
    /\ players = g.players
    /\ deck = g.deck
    /\ market = g.market
    /\ discard_pile = IF "discard" \in DOMAIN g THEN g.discard ELSE <<>>
    /\ player_hands = g.hands
    /\ player_borsht = g.borsht
    /\ player_recipes = g.recipes
    /\ moves_count = [p \in Range(g.players) |-> 0]
    /\ turn_state = NORMAL_TURN
    /\ current_player_index = 0
    /\ is_game_over = FALSE
    /\ winner = None
    /\ first_finisher = None
    /\ pending_shkvarkas = <<>>
    /\ active_shkvarkas = <<>>
    /\ recipes_revealed = FALSE
    /\ game_settings = g.settings
    /\ pending_requests = <<>>
    /\ sent_requests = <<>>
    /\ game_messages = <<>>
    /\ tasks = <<>>
    /\ event = NoEvent

Init ==
    /\ \E g \in Sessions : InitSession(g)
    /\ fn_in = None
    /\ fn_out = None

Next ==
    \/ \E p \in Range(players) : \E m \in MovesOf(State, p) : ProcessMove(p, m)
    \/ \E rid \in DOMAIN pending_requests :
          \E response \in ResponsesTo(pending_requests[rid]) : Respond(rid, response)
    \/ \E rid \in DOMAIN pending_requests : Timeout(rid)

Spec == Init /\ [][Next]_vars

\* the session in which an event card asks several players at once
InitFanOut ==
    /\ InitSession(SessionPorvalas)
    /\ fn_in = None
    /\ fn_out = None

\* the caller awaits process_move before it passes on the next move
NextSerial ==
    \/ /\ tasks = <<>>
       /\ \E p \in Range(players) : \E m \in MovesOf(State, p) : ProcessMove(p, m)
    \/ \E rid \in DOMAIN pending_requests :
          \E response \in ResponsesTo(pending_requests[rid]) : Respond(rid, response)
    \/ \E rid \in DOMAIN pending_requests : Timeout(rid)

SpecFanOut == InitFanOut /\ [][NextSerial]_vars

\* the session with the events that lose the race for a request
InitRace ==
    /\ \E g \in {SessionOliveOil, SessionLastRound} : InitSession(g)
    /\ fn_in = None
    /\ fn_out = None

NextRace ==
    \/ \E p \in Range(players) : \E m \in MovesOf(State, p) : ProcessMove(p, m)
    \/ \E rid \in DOMAIN pending_requests :
          \E response \in ResponsesTo(pending_requests[rid]) : Respond(rid, response)
    \/ \E rid \in DOMAIN pending_requests : Timeout(rid)
    \/ \E response \in ResponsesTo(event.request) :
          LateResponse(event.request_id, response)
    \/ LateTimer(event.request_id)

SpecRace == InitRace /\ [][NextRace]_vars

\* one session only: olive oil, and no event card in the deck
\* the moves and answers of Next, and deliveries that fail
NextTransport ==
    \/ \E p \in Range(players) : \E m \in MovesOf(State, p) : ProcessMove(p, m)
    \/ \E rid \in DOMAIN pending_requests :
          \E response \in ResponsesTo(pending_requests[rid]) : Respond(rid, response)
    \/ \E rid \in DOMAIN pending_requests : Timeout(rid)
    \/ \E p \in Range(players) : \E m \in MovesOf(State, p) :
          ProcessMoveDeliveryFails(p, m)

SpecTransport == InitRace /\ [][NextTransport]_vars

\* hands and a market of cards of cost 1 and 2
SessionExchange ==
    [ players |-> <<1, 2>>,
      deck |-> <<17, 7>>,
      market |-> <<6, 3, 16>>,
      hands |-> (1 :> <<5, 4>>) @@ (2 :> <<2, 18>>),
      borsht |-> (1 :> <<>>) @@ (2 :> <<>>),
      recipes |-> (1 :> "r_onion_carrot") @@ (2 :> "r_carrot_beet"),
      settings |-> SmallSettings ]

\* the same with an exchange tax
SessionExchangeTax ==
    [SessionExchange EXCEPT !.settings = [SmallSettings EXCEPT !.market_exchange_tax = 1]]

InitExchange ==
    /\ \E g \in {SessionExchange, SessionExchangeTax} : InitSession(g)
    /\ fn_in = None
    /\ fn_out = None

\* exchanges, and the answers to the discard requests they lead to
NextExchange ==
    \/ \E p \in Range(players) : \E m \in ExchangeMovesOf(State, p) : ProcessExchange(p, m)
    \/ \E rid \in DOMAIN pending_requests :
          \E response \in ResponsesTo(pending_requests[rid]) : Respond(rid, response)
    \/ \E rid \in DOMAIN pending_requests : Timeout(rid)

SpecExchange == InitExchange /\ [][NextExchange]_vars

\* a draw takes two event cards off the deck; the deal of the first of
\* them takes a third, a standing one, which asks both players to discard
SessionEvents ==
    [ players |-> <<1, 2>>,
      deck |-> <<14, 1, 13, 2, 19, 3, 4, 5, 6, 7, 16, 17, 18>>,
      market |-> <<10, 11, 12>>,
      hands |-> (1 :> <<>>) @@ (2 :> <<>>),
      borsht |-> (1 :> <<>>) @@ (2 :> <<>>),
      recipes |-> (1 :> "r_onion_carrot") @@ (2 :> "r_carrot_beet"),
      settings |-> [SmallSettings EXCEPT !.player_hand_limit = 6] ]

InitEvents ==
    /\ InitSession(SessionEvents)
    /\ fn_in = None
    /\ fn_out = None

SpecEvents == InitEvents /\ [][NextSerial]_vars

\* the sequences of distinct elements of S
NoRepeatSeqs(S) == {q \in SeqsUpTo(S, Cardinality(S)) : Cardinality(Range(q)) = Len(q)}

\* two potatoes and two event cards for the deck, a beet and salt for the
\* discard pile
DeckCards == {5, 17, 13, 14}
DiscardCards == {6, 7}

SessionDraw(d, dp) ==
    [ players |-> <<1, 2>>,
      deck |-> d,
      discard |-> dp,
      market |-> <<>>,
      hands |-> (1 :> <<>>) @@ (2 :> <<>>),
      borsht |-> (1 :> <<>>) @@ (2 :> <<>>),
      recipes |-> (1 :> "r_onion_carrot") @@ (2 :> "r_carrot_beet"),
      settings |-> SmallSettings ]

InitDraw ==
    /\ \E d \in NoRepeatSeqs(DeckCards) : \E dp \in NoRepeatSeqs(DiscardCards) :
          InitSession(SessionDraw(d, dp))
    /\ fn_in = None
    /\ fn_out = None

NextDraw ==
    \/ \E n \in 0..MaxDrawn : GetCardsCall(n)
    \/ \E p \in Range(players) : DrawCardsCall(p)

SpecDraw == InitDraw /\ [][NextDraw]_vars

\* the moves and answers of Next, and the session suspended and resumed
\* sanepidemstancia is on top of the deck; player 1 holds ginger
SessionSanepidemstancia ==
    [ players |-> <<1, 2>>,
      deck |-> <<20, 5, 17, 6, 18, 7>>,
      market |-> <<1, 2, 16>>,
      hands |-> (1 :> <<10, 4>>) @@ (2 :> <<3>>),
      borsht |-> (1 :> <<>>) @@ (2 :> <<>>),
      recipes |-> (1 :> "r_onion_carrot") @@ (2 :> "r_carrot_beet"),
      settings |-> SmallSettings ]

\* the session above, or a session whose market is still empty
InitMarket ==
    /\ \/ InitSession(SessionSanepidemstancia)
       \/ \E d \in NoRepeatSeqs({5, 17, 13}) : \E dp \in NoRepeatSeqs({6}) :
             InitSession(SessionDraw(d, dp))
    /\ fn_in = None
    /\ fn_out = None

NextMarket ==
    \/ /\ market # <<>>
       /\ NextSerial
    \/ MarketRefillCall

SpecMarket == InitMarket /\ [][NextMarket]_vars

\* player 1 holds the chili pepper (and, in h1, a sour cream before it),
\* player 2 the hand h2; n sour creams make a defence (1, or 2 as
\* molochka_skysla leaves it)
SessionDefense(h1, h2, n) ==
    [ players |-> <<1, 2>>,
      deck |-> <<17, 18, 7>>,
      market |-> <<1, 3, 6>>,
      hands |-> (1 :> h1) @@ (2 :> h2),
      borsht |-> (1 :> <<16>>) @@ (2 :> <<2>>),
      recipes |-> (1 :> "r_onion_carrot") @@ (2 :> "r_carrot_beet"),
      settings |-> [SmallSettings EXCEPT !.smetana_count_for_defence = n] ]

InitDefense ==
    /\ \E h1 \in {<<11, 4>>, <<25, 11, 4>>} :
       \E h2 \in {<<12, 5, 26>>, <<12, 5>>, <<5>>} :
       \E n \in {1, 2} : InitSession(SessionDefense(h1, h2, n))
    /\ fn_in = None
    /\ fn_out = None

SpecDefense == InitDefense /\ [][NextSerial]_vars

\* the event card c is on top of the deck; player 2 holds five cards, salt
\* among them
StandingSettings == [SmallSettings EXCEPT !.player_hand_limit = 6]

SessionStanding(c) ==
    [ players |-> <<1, 2>>,
      deck |-> <<c, 5, 17, 25, 26, 12>>,
      market |-> <<1, 4, 10>>,
      hands |-> (1 :> <<16>>) @@ (2 :> <<7, 2, 3, 6, 18>>),
      borsht |-> (1 :> <<>>) @@ (2 :> <<>>),
      recipes |-> (1 :> "r_onion_carrot") @@ (2 :> "r_carrot_beet"),
      settings |-> StandingSettings ]

InitStanding ==
    /\ \E c \in {19, 20, 21, 22, 23, 24, 27} : InitSession(SessionStanding(c))
    /\ fn_in = None
    /\ fn_out = None

SpecStanding == InitStanding /\ [][NextSerial]_vars

NextView ==
    \/ NextSerial
    \/ \E p \in Range(players) : \E kind \in VariantKinds : GetStateCall(p, kind)

\* sanepidemstancia (cards reach the discard pile) or kuhar_rozbazikav (the
\* recipes are revealed) is on top of the deck
InitView ==
    /\ \E c \in {20, 27} : InitSession(SessionStanding(c))
    /\ fn_in = None
    /\ fn_out = None

SpecView == InitView /\ [][NextView]_vars

\* a client sends a move after the end of the game
MoveAfterEnd(p, m) ==
    /\ is_game_over
    /\ \E x \in ProcessMoveCall(State, p, m) :
          /\ Commit(x)
          /\ event' = Event("move", p, m.action, None, NoRequest, NoRet, x)
    /\ UNCHANGED <<fn_in, fn_out>>

\* get_game_stats is called: fn_out is what it returns
GetGameStatsCall ==
    /\ fn_out' = GetGameStats(State)
    /\ Commit(State)
    /\ event' = Event("get_game_stats", None, "", None, NoRequest, NoRet, State)
    /\ UNCHANGED fn_in

\* player 1 is one card from completing and holds vinnik_lard
SessionLard ==
    [SessionLastRound EXCEPT !.hands = (1 :> <<28>>) @@ (2 :> <<5, 11>>)]

\* the sessions of the last round, moves after the end included
InitEnd ==
    /\ \E g \in {SessionLastRound, SessionLard} : InitSession(g)
    /\ fn_in = None
    /\ fn_out = None

NextEnd ==
    \/ Next
    \/ \E p \in Range(players) : \E m \in MovesOf(State, p) : MoveAfterEnd(p, m)
    \/ GetGameStatsCall

SpecEnd == InitEnd /\ [][NextEnd]_vars

\* the moves of a longer session; fn_in counts the GAME_ENDED broadcasts
MaxRounds == 4

MoveCounted(p, m) ==
    /\ tasks = <<>>
    /\ SumMoves(moves_count, players) < MaxRounds
    /\ \E x \in ProcessMoveCall(State, p, m) :
          /\ Commit(x)
          /\ event' = Event("move", p, m.action, None, NoRequest, NoRet, x)
          /\ fn_in' = fn_in + Len(x.ended)
    /\ UNCHANGED fn_out

\* the player answers request rid, or asyncio.wait_for gives up on it
AnswerCounted(rid, response) ==
    /\ rid \in DOMAIN pending_requests
    /\ \E x \in Run(RequestResume(State, rid, response), pending_requests[rid].task) :
          /\ Commit(x)
          /\ event' = Event(IF response.timed_out THEN "timeout" ELSE "respond",
                            pending_requests[rid].player, "", rid,
                            pending_requests[rid], response, x)
          /\ fn_in' = fn_in + Len(x.ended)
    /\ UNCHANGED fn_out

\* the finished session is suspended and resumed
ReloadAfterEnd ==
    /\ is_game_over
    /\ Reload

InitEndReload ==
    /\ InitSession(SessionLastRound)
    /\ fn_in = 0
    /\ fn_out = None

NextEndReload ==
    \/ \E p \in Range(players) : \E m \in MovesOf(State, p) : MoveCounted(p, m)
    \/ \E rid \in DOMAIN pending_requests :
          \E response \in ResponsesTo(pending_requests[rid])
                           \cup {[NoRet EXCEPT !.timed_out = TRUE]} :
             AnswerCounted(rid, response)
    \/ ReloadAfterEnd

SpecEndReload == InitEndReload /\ [][NextEndReload]_vars

\* the borshts tried for _check_recipe_completion: up to MaxTableau cards
\* out of an onion, a carrot, a potato, a beet, salt, vinnik_lard and beef
MaxTableau == 4
TableauCards == {1, 4, 5, 6, 7, 28, 29}
Tableaus == {q \in SeqsUpTo(TableauCards, MaxTableau) : Cardinality(Range(q)) = Len(q)}

SessionTableau(b, r) ==
    [ players |-> <<1, 2>>,
      deck |-> <<17, 18>>,
      market |-> <<2, 3, 16>>,
      hands |-> (1 :> <<>>) @@ (2 :> <<>>),
      borsht |-> (1 :> b) @@ (2 :> <<>>),
      recipes |-> (1 :> r) @@ (2 :> "r_carrot_beet"),
      settings |-> SmallSettings ]

InitCompletion ==
    /\ \E b \in Tableaus : \E r \in DOMAIN Recipes : InitSession(SessionTableau(b, r))
    /\ fn_in = None
    /\ fn_out = None

\* _check_recipe_completion is called for player p: fn_out is its result
\* (complete) and its results with one card of the borsht taken away
CheckRecipeCompletionCall(p) ==
    /\ event.kind = "init"
    /\ fn_in' = p
    /\ fn_out' = [ complete |-> CheckRecipeCompletion(State, p),
                   without |-> [i \in 1..Len(player_borsht[p]) |->
                                  CheckRecipeCompletion(
                                      [State EXCEPT !.player_borsht[p] = RemoveAt(@, i)], p)] ]
    /\ Commit(State)
    /\ event' = Event("check_recipe_completion", p, "", None, NoRequest, NoRet, State)

NextCompletion == \E p \in Range(players) : CheckRecipeCompletionCall(p)

SpecCompletion == InitCompletion /\ [][NextCompletion]_vars

\* player 1 holds the chili pepper and an onion in the borsht; the borsht of
\* player 2 holds an onion, a carrot and a beet; garmyder_na_kuhni is on the
\* deck; the chili pepper takes n cards
SessionSteal(n) ==
    [ players |-> <<1, 2>>,
      deck |-> <<15, 5, 17, 7>>,
      market |-> <<3, 18, 8>>,
      hands |-> (1 :> <<11, 4>>) @@ (2 :> <<10>>),
      borsht |-> (1 :> <<1>>) @@ (2 :> <<2, 16, 6>>),
      recipes |-> (1 :> "r_onion_carrot") @@ (2 :> "r_onion_carrot_potato_beet"),
      settings |-> [SmallSettings EXCEPT !.chili_pepper_discard_count = n] ]

\* the chili pepper moves with up to MaxTargets target cards, a draw, and
\* the moves that add a card of the hand
MaxTargets == 2

StealMovesOf(s, p) ==
    {[NoMove EXCEPT !.fields = {"action", "card_id", "target_player",
                                "target_cards", "action_type"},
                    !.action = PLAY_SPECIAL, !.card_id = c, !.target_player = q,
                    !.target_cards = tc, !.action_type = at]
       : c \in {x \in Range(s.player_hands[p]) : CardEffect(x) = "steal_or_discard"},
         q \in PlayerSet(s) \ {p},
         tc \in SeqsUpTo(UNION {Range(s.player_borsht[r]) : r \in PlayerSet(s) \ {p}},
                         MaxTargets) \ {<<>>},
         at \in {"steal", "discard"}}
    \cup {[NoMove EXCEPT !.fields = {"action"}, !.action = DRAW_CARDS]}
    \cup {[NoMove EXCEPT !.fields = {"action", "card_id"}, !.action = ADD_INGREDIENT,
                         !.card_id = c] : c \in Range(s.player_hands[p])}

ProcessSteal(p, m) ==
    /\ SumMoves(moves_count, players) < MaxMoves
    /\ tasks = <<>>
    /\ \E x \in ProcessMoveCall(State, p, m) :
          /\ Commit(x)
          /\ event' = Event("steal", p, m.action, None, NoRequest, NoRet, x)
    /\ UNCHANGED <<fn_in, fn_out>>

InitTableau ==
    /\ \E n \in {1, 2} : InitSession(SessionSteal(n))
    /\ fn_in = None
    /\ fn_out = None

NextTableau ==
    \/ \E p \in Range(players) : \E m \in StealMovesOf(State, p) : ProcessSteal(p, m)
    \/ \E rid \in DOMAIN pending_requests :
          \E response \in ResponsesTo(pending_requests[rid]) : Respond(rid, response)
    \/ \E rid \in DOMAIN pending_requests : Timeout(rid)

SpecTableau == InitTableau /\ [][NextTableau]_vars

\* player 1 holds paprika; the refill of the market after it takes
\* postachalnyk_pereplutav off the deck, which deals five cards to each hand
SessionPaprika ==
    [ players |-> <<1, 2>>,
      deck |-> <<5, 14, 17, 7, 1, 2, 3, 4, 6, 16, 18, 8, 10, 12, 25>>,
      market |-> <<26>>,
      hands |-> (1 :> <<9>>) @@ (2 :> <<>>),
      borsht |-> (1 :> <<>>) @@ (2 :> <<>>),
      recipes |-> (1 :> "r_onion_carrot") @@ (2 :> "r_carrot_beet"),
      settings |-> [SmallSettings EXCEPT !.player_hand_limit = 4] ]

InitPaprika ==
    /\ \E g \in {SessionPaprika, SessionMarket} : InitSession(g)
    /\ fn_in = None
    /\ fn_out = None

SpecPaprika == InitPaprika /\ [][NextSerial]_vars

NextReload ==
    \/ \E p \in Range(players) : \E m \in MovesOf(State, p) : ProcessMove(p, m)
    \/ \E rid \in DOMAIN pending_requests :
          \E response \in ResponsesTo(pending_requests[rid]) : Respond(rid, response)
    \/ \E rid \in DOMAIN pending_requests : Timeout(rid)
    \/ Reload

SpecReload == InitRace /\ [][NextReload]_vars

InitOliveOil ==
    /\ InitSession(SessionOliveOil)
    /\ fn_in = None
    /\ fn_out = None

SpecOliveOil == InitOliveOil /\ [][Next]_vars

\* each pending request's timer fires unless the request is answered first
RequestIds == 1..(MaxMoves + 1)

SpecLive == InitOliveOil /\ [][Next]_vars /\ \A rid \in RequestIds : WF_vars(Timeout(rid))

(***************************************************************************)
(* _determine_winner as a function of the scores, the hand costs, the      *)
(* first finisher and the move counts, for every roster order.             *)
(***************************************************************************)
WinnerInputs ==
    [ players : Perms(<<1, 2, 3>>),
      scores : [1..3 -> 0..MaxScore],
      hand_cost : [1..3 -> 0..MaxHandCost],
      first_finisher : {None} \cup (1..3),
      moves_count : [1..3 -> 0..MaxCount] ]

InitWinner ==
    /\ InitSession(SessionOliveOil)
    /\ fn_in \in WinnerInputs
    /\ fn_out = None

DetermineWinnerCall ==
    /\ fn_out = None
    /\ fn_out' = WinnerOf(fn_in.players, fn_in.scores, fn_in.hand_cost,
                          fn_in.first_finisher, fn_in.moves_count)
    /\ UNCHANGED <<players, deck, market, discard_pile, player_hands, player_borsht,
                   player_recipes, moves_count, turn_state, current_player_index,
                   is_game_over, winner, first_finisher, pending_shkvarkas,
                   active_shkvarkas, recipes_revealed, game_settings,
                   pending_requests, sent_requests, game_messages, tasks, event,
                   fn_in>>

NextWinner == DetermineWinnerCall

SpecWinner == InitWinner /\ [][NextWinner]_vars

(***************************************************************************)
(* Properties                                                              *)
(***************************************************************************)
CurrentPlayerId == players[current_player_index + 1]

RECURSIVE SumLen(_, _)
SumLen(f, ps) == IF ps = <<>> THEN 0 ELSE Len(f[Head(ps)]) + SumLen(f, Tail(ps))

\* |deck| + |market| + |discard_pile| + sum |player_hands| + sum |player_borsht|
CardTotal ==
    Len(deck) + Len(market) + Len(discard_pile)
      + SumLen(player_hands, players) + SumLen(player_borsht, players)

SessionTotal(g) ==
    Len(g.deck) + Len(g.market) + SumLen(g.hands, g.players) + SumLen(g.borsht, g.players)

\* no process_move is in flight: every call has returned
AtRest == tasks = <<>>

\* everything but the coroutines and the label of the step
session_vars ==
    <<players, deck, market, discard_pile, player_hands, player_borsht,
      player_recipes, moves_count, turn_state, current_player_index,
      is_game_over, winner, first_finisher, pending_shkvarkas, active_shkvarkas,
      recipes_revealed, game_settings, pending_requests, sent_requests,
      game_messages>>

(***************************************************************************)
(* The Splendor variant (splendor/game_manager.py).  A Splendor session is *)
(* a record held in fn_in, the result of its last move is in fn_out; the   *)
(* variables of the Borsht session stay as they were initialized.  The     *)
(* card lists of game_cards are data: the decks below are short ones. The  *)
(* room is set up with noble_tiles_for_2p = 0, so no noble is on the table *)
(* and _check_noble_eligibility finds none.                                *)
(***************************************************************************)
TAKE_DIFFERENT_GEMS == "take_different_gems"
TAKE_SAME_GEMS == "take_same_gems"
RESERVE_CARD == "reserve_card"
PURCHASE_CARD == "purchase_card"
RETURN_TOKENS == "return_tokens"
WAITING_FOR_TOKEN_RETURN == "waiting_for_token_return"
SPLENDOR_GAME_OVER == "game_over"

\* valid_colors, and the keys of player_gems
SplendorColors == {"white", "blue", "green", "red", "black"}
TokenColors == SplendorColors \cup {"gold"}

\* sum(d.values())
RECURSIVE SumValues(_)
SumValues(f) ==
    IF DOMAIN f = {} THEN 0
    ELSE LET k == CHOOSE k \in DOMAIN f : TRUE
         IN f[k] + SumValues([j \in DOMAIN f \ {k} |-> f[j]])

Larger(a, b) == IF a >= b THEN a ELSE b
Smaller(a, b) == IF a <= b THEN a ELSE b

\* a development card: its cost by colour, the colour of its bonus, its points
DevCard(w, b, g, r, k, gem_color, points) ==
    [ cost |-> [c \in SplendorColors |->
                  CASE c = "white" -> w [] c = "blue" -> b [] c = "green" -> g
                    [] c = "red" -> r [] c = "black" -> k],
      gem_color |-> gem_color,
      points |-> points ]

\* the shuffled decks of the three levels
SplendorDecks ==
    (1 :> << DevCard(1, 1, 0, 0, 0, "green", 1), DevCard(0, 0, 1, 0, 0, "white", 0),
             DevCard(0, 0, 0, 1, 1, "blue", 0) >>)
    @@ (2 :> << DevCard(2, 0, 0, 1, 0, "red", 1) >>)
    @@ (3 :> << DevCard(0, 0, 0, 0, 3, "black", 3) >>)

\* GameSettings(**game_settings): the settings of the room
SplendorSettings(tokens, gold, limit, prestige) ==
    [ gem_tokens_for_2p |-> tokens, gold_tokens |-> gold, token_limit |-> limit,
      prestige_to_win |-> prestige, cards_visible_per_level |-> 2 ]

\* _deal_initial_cards: the first cards of each deck are laid open
DealInitialCards(decks, n) ==
    [ visible |-> [l \in DOMAIN decks |-> SubSeq(decks[l], 1, Smaller(n, Len(decks[l])))],
      decks |-> [l \in DOMAIN decks |->
                   SubSeq(decks[l], Smaller(n, Len(decks[l])) + 1, Len(decks[l]))] ]

\* the session after __init__ and initialize_game, for two players
InitializeGame(settings) ==
    LET dealt == DealInitialCards(SplendorDecks, settings.cards_visible_per_level)
    IN [ settings |-> settings,
         players |-> <<1, 2>>,
         gem_tokens |-> [c \in SplendorColors |-> settings.gem_tokens_for_2p],
         gold_tokens |-> settings.gold_tokens,
         player_gems |-> [p \in {1, 2} |-> [c \in TokenColors |-> 0]],
         player_reserved_cards |-> [p \in {1, 2} |-> <<>>],
         player_purchased_cards |-> [p \in {1, 2} |-> [c \in SplendorColors |-> <<>>]],
         card_decks |-> dealt.decks,
         visible_cards |-> dealt.visible,
         turn_state |-> NORMAL_TURN,
         current_player_index |-> 0,
         moves_count |-> [p \in {1, 2} |-> 0],
         is_game_over |-> FALSE,
         winner |-> None ]

\* a handler's return value, with the session as it leaves it
Handled(g, success, error_message) ==
    [ g |-> g, success |-> success, error_message |-> error_message ]

\* no error message (None)
NoError == ""

\* move_data: the keys present and their values
SplendorNoMove ==
    [ fields |-> {}, action |-> "", gems |-> <<>>, gem_color |-> "",
      from_deck |-> FALSE, from_reserved |-> FALSE, card_level |-> 0,
      card_position |-> 0, card_index |-> 0,
      tokens |-> [c \in TokenColors |-> 0] ]

HandleTakeDifferentGems(g, p, m) ==
    IF "gems" \notin m.fields THEN Handled(g, FALSE, "Gem selection is required")
    ELSE IF Len(m.gems) # 3
    THEN Handled(g, FALSE, "You must select exactly 3 different gem colors")
    ELSE IF Cardinality(Range(m.gems)) # 3
    THEN Handled(g, FALSE, "You must select 3 different gem colors")
    ELSE IF \E c \in Range(m.gems) : c \notin SplendorColors
    THEN Handled(g, FALSE, "Invalid gem color")
    ELSE IF \E c \in Range(m.gems) : g.gem_tokens[c] <= 0
    THEN Handled(g, FALSE, "No tokens available")
    ELSE Handled([g EXCEPT
                    !.gem_tokens = [c \in SplendorColors |->
                                      IF c \in Range(m.gems) THEN @[c] - 1 ELSE @[c]],
                    !.player_gems[p] = [c \in TokenColors |->
                                          IF c \in Range(m.gems) THEN @[c] + 1 ELSE @[c]]],
                 TRUE, NoError)

HandleTakeSameGems(g, p, m) ==
    IF "gem_color" \notin m.fields THEN Handled(g, FALSE, "Gem color is required")
    ELSE IF m.gem_color \notin SplendorColors THEN Handled(g, FALSE, "Invalid gem color")
    ELSE IF g.gem_tokens[m.gem_color] < 4
    THEN Handled(g, FALSE, "Not enough tokens available (need at least 4)")
    ELSE Handled([g EXCEPT !.gem_tokens[m.gem_color] = @ - 2,
                           !.player_gems[p][m.gem_color] = @ + 2],
                 TRUE, NoError)

\* the reserved card joins the player's reserve, with a gold token if one is left
ReserveGain(g, p, card) ==
    LET g1 == [g EXCEPT !.player_reserved_cards[p] = Append(@, card)]
    IN IF g1.gold_tokens > 0
       THEN [g1 EXCEPT !.gold_tokens = @ - 1, !.player_gems[p]["gold"] = @ + 1]
       ELSE g1

\* visible_cards[level].pop(position), then a new card from the deck if any
TakeVisible(g, level, position) ==
    LET g1 == [g EXCEPT !.visible_cards[level] = RemoveAt(@, position + 1)]
    IN IF g1.card_decks[level] # <<>>
       THEN [g1 EXCEPT !.visible_cards[level] = Append(@, Head(g1.card_decks[level])),
                       !.card_decks[level] = Tail(@)]
       ELSE g1

HandleReserveCard(g, p, m) ==
    IF Len(g.player_reserved_cards[p]) >= 3
    THEN Handled(g, FALSE, "You cannot reserve more than 3 cards")
    ELSE IF m.from_deck
    THEN IF "card_level" \notin m.fields
         THEN Handled(g, FALSE, "Card level is required when reserving from a deck")
         ELSE IF m.card_level \notin {1, 2, 3} THEN Handled(g, FALSE, "Invalid card level")
         ELSE IF g.card_decks[m.card_level] = <<>>
         THEN Handled(g, FALSE, "No cards left in deck")
         ELSE Handled(ReserveGain([g EXCEPT !.card_decks[m.card_level] = Tail(@)], p,
                                  Head(g.card_decks[m.card_level])),
                      TRUE, NoError)
    ELSE IF ~({"card_level", "card_position"} \subseteq m.fields)
         THEN Handled(g, FALSE, "Card level and position are required")
         ELSE IF m.card_level \notin {1, 2, 3} THEN Handled(g, FALSE, "Invalid card level")
         ELSE IF m.card_position < 0
                 \/ m.card_position >= Len(g.visible_cards[m.card_level])
         THEN Handled(g, FALSE, "Invalid card position")
         ELSE Handled(ReserveGain(TakeVisible(g, m.card_level, m.card_position), p,
                                  g.visible_cards[m.card_level][m.card_position + 1]),
                      TRUE, NoError)

\* _get_player_bonuses: the purchased cards of each colour
GetPlayerBonuses(g, p) ==
    [c \in SplendorColors |-> Len(g.player_purchased_cards[p][c])]

\* _can_afford_card: own gems first, gold for the rest
CanAffordCard(g, p, card) ==
    LET player_gems == g.player_gems[p]
        required == [c \in SplendorColors |->
                       Larger(0, card.cost[c] - GetPlayerBonuses(g, p)[c])]
        gem_amount == [c \in SplendorColors |-> Smaller(required[c], player_gems[c])]
        required_payment ==
            [c \in TokenColors |->
               IF c = "gold"
               THEN SumValues([d \in SplendorColors |-> required[d] - gem_amount[d]])
               ELSE gem_amount[c]]
    IN [ can_afford |-> /\ player_gems["gold"] >= required_payment["gold"]
                        /\ \A c \in SplendorColors : player_gems[c] >= required_payment[c],
         required_payment |-> required_payment ]

\* the card joins the purchased cards, the payment returns to the supply
Purchase(g, p, card, required_payment) ==
    [g EXCEPT !.player_purchased_cards[p][card.gem_color] = Append(@, card),
              !.player_gems[p] = [c \in TokenColors |-> @[c] - required_payment[c]],
              !.gold_tokens = @ + required_payment["gold"],
              !.gem_tokens = [c \in SplendorColors |-> @[c] + required_payment[c]]]

HandlePurchaseCard(g, p, m) ==
    IF m.from_reserved
    THEN IF "card_index" \notin m.fields
         THEN Handled(g, FALSE, "Card index is required when purchasing a reserved card")
         ELSE IF m.card_index < 0 \/ m.card_index >= Len(g.player_reserved_cards[p])
         THEN Handled(g, FALSE, "Invalid reserved card index")
         ELSE LET card == g.player_reserved_cards[p][m.card_index + 1]
                  afford == CanAffordCard(g, p, card)
              IN IF ~afford.can_afford
                 THEN Handled(g, FALSE, "You cannot afford this card")
                 ELSE Handled(Purchase([g EXCEPT !.player_reserved_cards[p] =
                                                     RemoveAt(@, m.card_index + 1)],
                                       p, card, afford.required_payment),
                              TRUE, NoError)
    ELSE IF ~({"card_level", "card_position"} \subseteq m.fields)
         THEN Handled(g, FALSE, "Card level and position are required")
         ELSE IF m.card_level \notin {1, 2, 3} THEN Handled(g, FALSE, "Invalid card level")
         ELSE IF m.card_position < 0
                 \/ m.card_position >= Len(g.visible_cards[m.card_level])
         THEN Handled(g, FALSE, "Invalid card position")
         ELSE LET card == g.visible_cards[m.card_level][m.card_position + 1]
                  afford == CanAffordCard(g, p, card)
              IN IF ~afford.can_afford
                 THEN Handled(g, FALSE, "You cannot afford this card")
                 ELSE Handled(Purchase(TakeVisible(g, m.card_level, m.card_position),
                                       p, card, afford.required_payment),
                              TRUE, NoError)

\* handle_token_return: a colour missing from the payload counts as 0
HandleTokenReturn(g, p, tokens_to_return) ==
    IF p # g.players[g.current_player_index + 1] THEN Handled(g, FALSE, "Not your turn")
    ELSE IF g.turn_state # WAITING_FOR_TOKEN_RETURN
    THEN Handled(g, FALSE, "Token return not required at this time")
    ELSE IF SumValues(g.player_gems[p]) - SumValues(tokens_to_return)
            # g.settings.token_limit
    THEN Handled(g, FALSE, "You must return exactly the excess tokens")
    ELSE IF \E c \in TokenColors : g.player_gems[p][c] < tokens_to_return[c]
    THEN Handled(g, FALSE, "You don't have the tokens to return")
    ELSE Handled([g EXCEPT
                    !.player_gems[p] = [c \in TokenColors |-> @[c] - tokens_to_return[c]],
                    !.gold_tokens = @ + tokens_to_return["gold"],
                    !.gem_tokens = [c \in SplendorColors |-> @[c] + tokens_to_return[c]],
                    !.turn_state = NORMAL_TURN],
                 TRUE, NoError)

\* _calculate_prestige_points and _count_cards, over the purchased cards
RECURSIVE SumCardPoints(_)
SumCardPoints(q) == IF q = <<>> THEN 0 ELSE Head(q).points + SumCardPoints(Tail(q))

CalculatePrestigePoints(g, p) ==
    SumValues([c \in SplendorColors |-> SumCardPoints(g.player_purchased_cards[p][c])])

CountCards(g, p) ==
    SumValues([c \in SplendorColors |-> Len(g.player_purchased_cards[p][c])])

\* _determine_winner: most points, then fewest cards, then first in order
RECURSIVE SplendorWinnerLoop(_, _, _)
SplendorWinnerLoop(g, ps, best) ==
    IF ps = <<>> THEN best.winner_id
    ELSE LET points == CalculatePrestigePoints(g, Head(ps))
             cards_count == CountCards(g, Head(ps))
         IN SplendorWinnerLoop(g, Tail(ps),
              IF points > best.max_points
                 \/ (points = best.max_points /\ cards_count < best.min_cards)
              THEN [max_points |-> points, min_cards |-> cards_count,
                    winner_id |-> Head(ps)]
              ELSE best)

SplendorDetermineWinner(g) ==
    SplendorWinnerLoop(g, g.players,
                       [max_points |-> -1, min_cards |-> 0, winner_id |-> None])

\* check_game_over
SplendorCheckGameOver(g) ==
    IF \E p \in Range(g.players) :
          CalculatePrestigePoints(g, p) >= g.settings.prestige_to_win
    THEN [g EXCEPT !.is_game_over = TRUE, !.turn_state = SPLENDOR_GAME_OVER,
                   !.winner = SplendorDetermineWinner(g)]
    ELSE g

\* _process_move
SplendorProcessMove(g, p, m) ==
    IF p # g.players[g.current_player_index + 1] THEN Handled(g, FALSE, "Not your turn")
    ELSE IF g.is_game_over THEN Handled(g, FALSE, "Game is already over")
    ELSE IF "action" \notin m.fields
    THEN Handled(g, FALSE, "Invalid move data, action required")
    ELSE
    LET g1 == [g EXCEPT !.moves_count[p] = @ + 1]
        normal == g1.turn_state = NORMAL_TURN
        r1 == IF m.action = TAKE_DIFFERENT_GEMS /\ normal
              THEN HandleTakeDifferentGems(g1, p, m)
              ELSE IF m.action = TAKE_SAME_GEMS /\ normal THEN HandleTakeSameGems(g1, p, m)
              ELSE IF m.action = RESERVE_CARD /\ normal THEN HandleReserveCard(g1, p, m)
              ELSE IF m.action = PURCHASE_CARD /\ normal THEN HandlePurchaseCard(g1, p, m)
              ELSE Handled(g1, FALSE, NoError)
    IN IF r1.success /\ SumValues(r1.g.player_gems[p]) > g.settings.token_limit
       THEN [r1 EXCEPT !.g.turn_state = WAITING_FOR_TOKEN_RETURN]
       ELSE
       LET r2 == IF m.action = RETURN_TOKENS /\ r1.g.turn_state = WAITING_FOR_TOKEN_RETURN
                 THEN HandleTokenReturn(r1.g, p, m.tokens)
                 ELSE [r1 EXCEPT !.error_message =
                         "Invalid action type or action not allowed in current game state"]
       IN IF r2.success /\ r2.g.turn_state = NORMAL_TURN
          THEN LET g3 == SplendorCheckGameOver(r2.g)
               IN [r2 EXCEPT !.g =
                     IF g3.is_game_over THEN g3
                     ELSE [g3 EXCEPT !.current_player_index = (@ + 1) % Len(g3.players)]]
          ELSE r2

\* the counts a return_tokens payload gives for a colour (any integer of
\* this size, negative ones too), and its colours
MaxReturn == 1
ReturnColors == {"white", "blue", "green", "gold"}

\* the payloads the clients send
SplendorMoves ==
    {[SplendorNoMove EXCEPT !.fields = {"action", "gems"}, !.action = TAKE_DIFFERENT_GEMS,
                            !.gems = q] :
        q \in {<<"white", "blue", "green">>, <<"white", "red", "black">>,
               <<"green", "red", "black">>, <<"white", "white", "blue">>,
               <<"white", "blue">>, <<"white", "blue", "pink">>}}
    \cup {[SplendorNoMove EXCEPT !.fields = {"action", "gem_color"},
                                 !.action = TAKE_SAME_GEMS, !.gem_color = c] :
             c \in {"white", "red", "pink"}}
    \cup {[SplendorNoMove EXCEPT !.fields = {"action", "from_deck", "card_level"},
                                 !.action = RESERVE_CARD, !.from_deck = TRUE,
                                 !.card_level = l] : l \in {1, 2, 4}}
    \cup {[SplendorNoMove EXCEPT !.fields = {"action", "card_level", "card_position"},
                                 !.action = a, !.card_level = l, !.card_position = i] :
             a \in {RESERVE_CARD, PURCHASE_CARD}, l \in {1, 3}, i \in {0, 1}}
    \cup {[SplendorNoMove EXCEPT !.fields = {"action", "from_reserved", "card_index"},
                                 !.action = PURCHASE_CARD, !.from_reserved = TRUE,
                                 !.card_index = i] : i \in {0, 1}}
    \cup {[SplendorNoMove EXCEPT !.fields = {"action", "tokens"}, !.action = RETURN_TOKENS,
                                 !.tokens = [c \in TokenColors |->
                                               IF c \in ReturnColors THEN t[c] ELSE 0]] :
             t \in [ReturnColors -> (0 - MaxReturn)..MaxReturn]}
    \cup {[SplendorNoMove EXCEPT !.fields = {"gems"}]}

\* the moves processed in one Splendor session
MaxGemMoves == 3

\* process_move(p, m) of the Splendor manager
SplendorMove(p, m) ==
    /\ SumValues(fn_in.moves_count) < MaxGemMoves \/ fn_in.is_game_over
    /\ LET r == SplendorProcessMove(fn_in, p, m)
       IN /\ fn_in' = r.g
          /\ fn_out' = [success |-> r.success, error_message |-> r.error_message]
          /\ event' = [NoEvent EXCEPT !.kind = "splendor_move", !.player = p,
                                      !.action = m.action]
    /\ UNCHANGED <<session_vars, tasks>>

\* a room of the default supply with a low token limit and target, and a room
\* of one token per colour
InitSplendor ==
    /\ InitSession(SessionOliveOil)
    /\ \E settings \in {SplendorSettings(4, 1, 3, 1), SplendorSettings(1, 1, 2, 15)} :
          fn_in = InitializeGame(settings)
    /\ fn_out = [success |-> TRUE, error_message |-> NoError]

NextSplendor == \E p \in {1, 2} : \E m \in SplendorMoves : SplendorMove(p, m)

SpecSplendor == InitSplendor /\ [][NextSplendor]_vars

\* C40: in a Splendor session every token count (each colour of the supply,
\* the gold supply, each colour held by each player) is at least 0 and at
\* most the initial supply of its colour
C40_TokenBounds ==
    event.kind = "splendor_move" =>
        /\ \A c \in SplendorColors :
              fn_in.gem_tokens[c] \in 0..fn_in.settings.gem_tokens_for_2p
        /\ fn_in.gold_tokens \in 0..fn_in.settings.gold_tokens
        /\ \A p \in Range(fn_in.players) :
              /\ \A c \in SplendorColors :
                    fn_in.player_gems[p][c] \in 0..fn_in.settings.gem_tokens_for_2p
              /\ fn_in.player_gems[p]["gold"] \in 0..fn_in.settings.gold_tokens

\* C1: whenever every process_move has returned, the cards of deck, market,
\* discard pile, hands and borshts are as many as right after initialization
\* (stated for the session SessionOliveOil of SpecOliveOil).
C1_CardConservation == AtRest => CardTotal = SessionTotal(SessionOliveOil)

\* C2: a move of a player who is not the current player returns at once
\* with the error "Not your turn", is answered to that player only, and
\* changes no component of the session.
C2_NotYourTurn ==
    [][ (event'.kind = "move" /\ event'.player # CurrentPlayerId)
          => /\ UNCHANGED session_vars
             /\ UNCHANGED tasks
             /\ event'.returned = <<[player |-> event'.player, ok |-> FALSE,
                                     err |-> "Not your turn"]>>
             /\ event'.notified = {event'.player} ]_vars

\* C2 happens: a move is rejected with "Not your turn" in the middle of a
\* game, while a request of a move in flight is pending.
C2_Witness ==
    /\ event.kind = "move"
    /\ event.returned # <<>>
    /\ event.returned[1].err = "Not your turn"
    /\ pending_requests # <<>>
    /\ SumMoves(moves_count, players) > 0

\* C3: a move of the current player that fails leaves the session as it
\* was, moves_count and turn_state included, and only the player who moved
\* is sent anything.
C3_FailedMoveChangesNothing ==
    [][ ( /\ event'.kind = "move"
          /\ event'.player = CurrentPlayerId
          /\ event'.returned # <<>>
          /\ ~event'.returned[1].ok )
          => /\ UNCHANGED session_vars
             /\ event'.notified \subseteq {event'.player} ]_vars

Accepted(e) == e.returned = <<>> \/ e.returned[1].ok

LegalIn(action, ts) ==
    \/ action \in {ADD_INGREDIENT, DRAW_CARDS, PLAY_SPECIAL} /\ ts = NORMAL_TURN
    \/ action = EXCHANGE_INGREDIENTS /\ ts \in {NORMAL_TURN, WAITING_FOR_EXCHANGE}
    \/ action = SKIP /\ ts = WAITING_FOR_EXCHANGE
    \/ action = FREE_MARKET_REFRESH /\ ts \in {NORMAL_TURN, WAITING_FOR_EXCHANGE}

WaitingStates == {WAITING_FOR_SELECTION, WAITING_FOR_DISCARD, WAITING_FOR_DEFENSE}

\* C4: a move is accepted only when its action is legal in the turn state,
\* and while the turn state is one of the waiting states no move is
\* accepted or changes deck, market, discard pile, hands or borshts.
C4_ActionMatchesTurnState ==
    [][ event'.kind = "move"
          => /\ Accepted(event') => LegalIn(event'.action, turn_state)
             /\ turn_state \in WaitingStates
                  => UNCHANGED <<deck, market, discard_pile, player_hands,
                                 player_borsht>> ]_vars

\* C5: every sub-flow that resolves leaves turn_state as it found it, and
\* when every process_move has returned and the game is not over the turn
\* state is NORMAL_TURN or WAITING_FOR_EXCHANGE.
C5_SubFlowsRestoreTurnState ==
    /\ \A i \in 1..Len(event.resolved) :
          event.resolved[i].exit = event.resolved[i].entry
    /\ (AtRest /\ ~is_game_over) => turn_state \in {NORMAL_TURN, WAITING_FOR_EXCHANGE}

\* C6: the game becomes over only at a turn advance that makes the first
\* finisher the current player, and then a winner is set; the turn always
\* advances by one place in the roster, reaching the first finisher ends the
\* game, and when the first finisher is set the turn is with that player or
\* with the next one, so that every other player has one more turn.
C6_FinalRound ==
    [][ LET n == Len(players)
            f == IndexOf(players', first_finisher') - 1
        IN  /\ (~is_game_over /\ is_game_over')
                 => /\ first_finisher' # None
                    /\ players'[current_player_index' + 1] = first_finisher'
                    /\ current_player_index' # current_player_index
                    /\ winner' # None
            /\ current_player_index' # current_player_index
                 => /\ current_player_index' = (current_player_index + 1) % n
                    /\ (first_finisher # None
                          /\ players'[current_player_index' + 1] = first_finisher)
                         => is_game_over'
            /\ (first_finisher = None /\ first_finisher' # None)
                 => current_player_index' \in {f, (f + 1) % n} ]_vars

\* C7: once the first finisher is set, a step of another player's turn does
\* not change the first finisher's hand, borsht or recipe.
C7_FirstFinisherUntouched ==
    [][ (first_finisher # None /\ CurrentPlayerId # first_finisher)
          => /\ player_hands'[first_finisher] = player_hands[first_finisher]
             /\ player_borsht'[first_finisher] = player_borsht[first_finisher]
             /\ player_recipes'[first_finisher] = player_recipes[first_finisher] ]_vars

\* the players the tie-break order leaves: highest score, then highest hand
\* cost, then the first finisher, then fewest moves
TieBreakWinners(in) ==
    LET P == Range(in.players)
        top == {p \in P : \A q \in P : in.scores[q] <= in.scores[p]}
        rich == {p \in top : \A q \in top : in.hand_cost[q] <= in.hand_cost[p]}
        first == IF in.first_finisher \in rich THEN {in.first_finisher} ELSE rich
    IN  {p \in first : \A q \in first : in.moves_count[p] <= in.moves_count[q]}

\* C8: the winner _determine_winner returns is one the tie-break order
\* leaves: maximal score, then highest hand cost, then first finisher, then
\* fewest moves.
C8_TieBreak == fn_out # None => fn_out \in TieBreakWinners(fn_in)

InvalidSelection(req, response) ==
    /\ req.type # "defense_request"
    /\ ~response.random_select
    /\ ~response.timed_out
    /\ \/ Len(response.selected) # req.select_count
       \/ \E i \in 1..Len(response.selected) : response.selected[i] \notin Range(req.cards)

\* C9: a structurally invalid response to a card-selection request resolves
\* the selection in the same step, and no new request is sent.
C9_InvalidResponseFallsBack ==
    [][ (event'.kind = "respond" /\ InvalidSelection(event'.request, event'.response))
          => /\ event'.created = {}
             /\ \E i \in 1..Len(event'.resolved) :
                   event'.resolved[i].flow = "selection" ]_vars

\* the elements of a sequence are pairwise different
Distinct(q) == \A i, j \in 1..Len(q) : i # j => q[i] # q[j]

\* the selection sub-flows that a timeout resolves in this step
TimedOutSelections ==
    {i \in 1..Len(event.resolved) :
        event.resolved[i].flow = "selection" /\ event.resolved[i].timed_out}

\* C11: a card selection that a timeout resolves returns a partition of the
\* offered cards: exactly select_count distinct selected cards and the
\* other len(cards) - select_count cards, nothing lost, doubled or foreign.
C11_TimeoutPartition ==
    \A i \in TimedOutSelections :
        LET r == event.resolved[i]
        IN  /\ Len(r.selected) = r.select_count
            /\ Len(r.remaining) = Len(r.offered) - r.select_count
            /\ Distinct(r.selected \o r.remaining)
            /\ Range(r.selected) \cup Range(r.remaining) = Range(r.offered)

\* C11 happens: a timeout resolves a selection among at least two more
\* cards than are selected
C11_Witness ==
    /\ event.kind = "timeout"
    /\ \E i \in TimedOutSelections :
          Len(event.resolved[i].offered) >= event.resolved[i].select_count + 2

\* the requests other than rid are pending after the step as before it
OthersPending(rid) ==
    \A r \in (DOMAIN pending_requests) \ {rid} :
        r \in DOMAIN pending_requests' /\ pending_requests'[r] = pending_requests[r]

\* the card selections the step resolves for request req have the outcome
\* the caller sees: timed out or not, and the cards of a valid response
ResumedWith(e, timed_out) ==
    \A i \in 1..Len(e.resolved) :
        (e.resolved[i].flow = "selection" /\ e.resolved[i].offered = e.request.cards)
          => /\ e.resolved[i].timed_out = timed_out
             /\ (~timed_out /\ ~e.response.random_select)
                  => e.resolved[i].selected = e.response.selected

\* C12: a request is resolved once: the response or the timeout that comes
\* first takes the request out of the pending ones and resumes the caller
\* with that outcome, leaving the other requests pending; the event that
\* comes second changes nothing of the session and resolves no request.
C12_ResolvesOnce ==
    [][ /\ event'.kind \in {"respond", "timeout"}
          => /\ event'.request_id \in DOMAIN pending_requests
             /\ \/ event'.request_id \notin DOMAIN pending_requests'
                \/ event'.request_id \in event'.created
             /\ OthersPending(event'.request_id)
             /\ ResumedWith(event', event'.kind = "timeout")
        /\ event'.kind \in {"late_response", "late_timer"}
          => /\ UNCHANGED session_vars
             /\ UNCHANGED tasks
             /\ event'.resolved = <<>> /\ event'.created = {} ]_vars

\* C12 happens: a response with a selection arrives for a request that has
\* timed out, after the move has gone on and the turn has advanced
C12_Witness ==
    /\ event.kind = "late_response"
    /\ Len(event.response.selected) = event.request.select_count
    /\ current_player_index # 0

\* resend_pending_requests(p): the messages it sends, by request id; a
\* request id without a message is a KeyError
ResendPendingRequests(p) ==
    LET ids == {r \in DOMAIN pending_requests : pending_requests[r].player = p}
    IN  IF ids \subseteq DOMAIN sent_requests
        THEN [ok |-> TRUE, messages |-> {sent_requests[r] : r \in ids}]
        ELSE [ok |-> FALSE, messages |-> {}]

\* C13: pending_requests and sent_requests hold the same request ids, what
\* resend_pending_requests(p) sends is one message for each request of p
\* that is not resolved, with the type, id, cards and count of the request;
\* a message does not change while its request is pending, a request that
\* is sent is in both tables and a request that resolves is in neither.
C13_PendingReplayable ==
    [][ /\ DOMAIN pending_requests' = DOMAIN sent_requests'
        /\ \A p \in Range(players') :
              LET ids == {r \in DOMAIN pending_requests' :
                            pending_requests'[r].player = p}
                  resend == ResendPendingRequests(p)'
              IN  /\ resend.ok
                  /\ {m.request_id : m \in resend.messages} = ids
                  /\ \A m \in resend.messages :
                        /\ m.type = pending_requests'[m.request_id].type
                        /\ m.cards = pending_requests'[m.request_id].cards
                        /\ m.select_count = pending_requests'[m.request_id].select_count
        /\ \A r \in DOMAIN sent_requests :
              (r \in DOMAIN sent_requests' /\ r \notin event'.created)
                => sent_requests'[r] = sent_requests[r]
        /\ event'.created \subseteq DOMAIN sent_requests'
        /\ (event'.kind \in {"respond", "timeout"}
               /\ event'.request_id \notin event'.created)
              => /\ event'.request_id \notin DOMAIN sent_requests'
                 /\ event'.request_id \notin DOMAIN pending_requests' ]_vars

\* C13 happens: a request is resolved while another request stays pending
\* and replayable
C13_Witness ==
    /\ event.kind \in {"respond", "timeout"}
    /\ event.request_id \notin DOMAIN sent_requests
    /\ sent_requests # <<>>

\* the branches of a fan-out that are outstanding: the tasks of the players
Branches == {t \in DOMAIN tasks : tasks[t].stack[1].fn = "porvalas_player"}

\* the task that created branch t is suspended in the handler, at the loop
\* that awaits the branches
HandlerAwaits(t) ==
    LET parent == tasks[t].stack[1].v.parent
    IN  /\ parent \in DOMAIN tasks
        /\ \E k \in 1..Len(tasks[parent].stack) :
              /\ tasks[parent].stack[k].fn = "porvalas"
              /\ \E i \in 1..Len(tasks[parent].stack[k].v.children) :
                    tasks[parent].stack[k].v.children[i] = t

NewTurns(messages) == Len(SelectSeq(messages, LAMBDA x : x = "new_turn"))

\* C15: a move whose message cannot be delivered is not aborted:
\* process_move returns as it does when the delivery succeeds, and leaves
\* the session in the state that the same move leaves when the delivery
\* succeeds.
C15_DeliveryFailureKeepsMove ==
    [][ event'.kind = "delivery_fails"
          => \E m \in MovesOf(State, event'.player) :
                \E x \in ProcessMoveCall(State, event'.player, m) :
                   /\ m.action = event'.action
                   /\ event'.returned = x.returned
                   /\ Commit(x) ]_vars

C17_SessionLevelRoundTrip ==
    [][ event'.kind = "load"
          => /\ current_player_index' = current_player_index
             /\ is_game_over' = is_game_over
             /\ winner' = winner
             /\ turn_state' = turn_state
             /\ first_finisher' = first_finisher
             /\ game_messages' = game_messages ]_vars

\* C18: after the load of a snapshot taken with requests outstanding, no
\* request is pending or replayable and the session is not in a waiting
\* turn state.
C18_ReloadTimesOutRequests ==
    [][ event'.kind = "load" /\ pending_requests # <<>>
          => /\ pending_requests' = <<>>
             /\ sent_requests' = <<>>
             /\ turn_state' \notin {WAITING_FOR_SELECTION, WAITING_FOR_DISCARD,
                                     WAITING_FOR_DEFENSE} ]_vars

\* the exchange that the rules allow, a card counting each time it is listed
ExchangeAllowed(m, hand, mkt, tax) ==
    /\ {"hand_cards", "market_cards"} \subseteq m.fields
    /\ Range(m.hand_cards) \subseteq Range(hand)
    /\ Range(m.market_cards) \subseteq Range(mkt)
    /\ Len(m.hand_cards) = 1 \/ Len(m.market_cards) = 1
    /\ SumCost(m.hand_cards) >= SumCost(m.market_cards) + tax

\* C19: _handle_exchange accepts an exchange exactly when every offered
\* uid is in the hand, every requested uid is in the market, one of the
\* two lists names one card, and the offered cards cost at least what the
\* requested cards cost plus the exchange tax; when it does not accept,
\* hand and market are unchanged.
C19_ExchangeAccepted ==
    [][ event'.kind = "exchange"
          => /\ fn_out'.ok <=> ExchangeAllowed(fn_in', player_hands[event'.player], market,
                                               game_settings.market_exchange_tax)
             /\ ~fn_out'.ok => /\ fn_out'.s.player_hands = player_hands
                               /\ fn_out'.s.market = market ]_vars

\* q without the elements of S, in the order of q
Without(q, S) == LET Keep(x) == x \notin S IN SelectSeq(q, Keep)

\* C20: an accepted exchange takes exactly the offered cards out of the
\* hand and puts exactly the requested cards in, takes exactly the
\* requested cards out of the market and puts exactly the offered cards
\* in, and leaves every other card of the hand and the market, the deck,
\* the discard pile and the other containers as they were, uids listed
\* twice included.
C20_ExchangeSwap ==
    [][ event'.kind = "exchange" /\ fn_out'.ok
          => LET p == event'.player
                 x == fn_out'.s
                 hc == fn_in'.hand_cards
                 mc == fn_in'.market_cards
             IN  /\ Without(x.player_hands[p], Range(mc)) = Without(player_hands[p], Range(hc))
                 /\ Without(x.market, Range(hc)) = Without(market, Range(mc))
                 /\ Range(mc) \subseteq Range(x.player_hands[p])
                 /\ Range(hc) \subseteq Range(x.market)
                 /\ Len(x.player_hands[p]) = Len(player_hands[p])
                                               - Cardinality(Range(hc)) + Cardinality(Range(mc))
                 /\ Len(x.market) = Len(market)
                                      - Cardinality(Range(mc)) + Cardinality(Range(hc))
                 /\ \A q \in Range(players) \ {p} : x.player_hands[q] = player_hands[q]
                 /\ x.player_borsht = player_borsht
                 /\ x.deck = deck
                 /\ x.discard_pile = discard_pile ]_vars

RECURSIVE Occurrences(_, _)
Occurrences(q, x) ==
    IF q = <<>> THEN 0
    ELSE (IF Head(q) = x THEN 1 ELSE 0) + Occurrences(Tail(q), x)

RECURSIVE OccurrencesIn(_, _, _)
OccurrencesIn(f, ps, x) ==
    IF ps = <<>> THEN 0 ELSE Occurrences(f[Head(ps)], x) + OccurrencesIn(f, Tail(ps), x)

\* the places card x is in
Places(x) ==
    Occurrences(deck, x) + Occurrences(market, x) + Occurrences(discard_pile, x)
      + OccurrencesIn(player_hands, players, x) + OccurrencesIn(player_borsht, players, x)
      + Occurrences(pending_shkvarkas, x) + Occurrences(active_shkvarkas, x)

\* the cards of a session
SessionCards(g) ==
    Range(g.deck) \cup Range(g.market)
      \cup UNION {Range(g.hands[p]) \cup Range(g.borsht[p]) : p \in Range(g.players)}

\* C21: no card is in two containers or twice in one, and whenever every
\* process_move has returned each card of the session is in exactly one
\* place (stated for the cards of SessionExchange).
C21_OnePlacePerCard ==
    /\ \A x \in Uids : Places(x) <= 1
    /\ AtRest => \A x \in SessionCards(SessionExchange) : Places(x) = 1

\* the cards of q that are not event cards, and those that are
NonEvents(q) == LET Test(x) == CardType(x) # "shkvarka" IN SelectSeq(q, Test)
Events(q) == LET Test(x) == CardType(x) = "shkvarka" IN SelectSeq(q, Test)

\* cards were taken from the top of q, which leaves rest: the event cards
\* met on the way went to the pending list, and taking stopped at the n-th
\* card that is not an event card
TakenFromTop(q, n, cards, rest, before, after) ==
    \E k \in 0..Len(q) :
        /\ rest = SubSeq(q, k + 1, Len(q))
        /\ cards = NonEvents(SubSeq(q, 1, k))
        /\ after = before \o Events(SubSeq(q, 1, k))
        /\ Len(cards) <= n
        /\ Len(cards) < n => k = Len(q)
        /\ \A j \in 0..(k - 1) : Len(NonEvents(SubSeq(q, 1, j))) < n

\* C22: _get_cards_from_deck(n) returns cards that are not event cards,
\* taken from the top of the deck in deck order; the discard pile changes
\* only by being shuffled under a deck that ran out, and is then empty;
\* less than n cards are returned only when deck and discard pile are
\* both empty afterwards; and draw_cards fails exactly when no card that
\* is not an event card is in the deck or the discard pile.
C22_DrawFromDeck ==
    [][ /\ event'.kind = "get_cards"
          => /\ \/ /\ discard_pile' = discard_pile
                   /\ TakenFromTop(deck, fn_in', fn_out', deck',
                                   pending_shkvarkas, pending_shkvarkas')
                \/ /\ discard_pile' = <<>>
                   /\ Len(deck') <= Len(discard_pile)
                   /\ \E d \in Perms(discard_pile) :
                         TakenFromTop(deck \o d, fn_in', fn_out', deck',
                                      pending_shkvarkas, pending_shkvarkas')
             /\ Len(fn_out') < fn_in' => deck' = <<>> /\ discard_pile' = <<>>
        /\ event'.kind = "draw_cards"
          => (fn_out' <=> NonEvents(deck \o discard_pile) # <<>>) ]_vars

\* a call for more cards than the deck holds finds an event card, runs out
\* of deck, shuffles the discard pile in and goes on drawing from it
C22_Witness ==
    /\ event.kind = "get_cards"
    /\ fn_in = MaxDrawn
    /\ Len(fn_out) = MaxDrawn
    /\ pending_shkvarkas # <<>>
    /\ discard_pile = <<>>
    /\ Range(fn_out) \cap DiscardCards # {}

\* the cards of every hand, borsht, the market and the discard pile
OpenCards ==
    Range(market) \cup Range(discard_pile)
      \cup UNION {Range(player_hands[p]) \cup Range(player_borsht[p]) : p \in Range(players)}

CountOf(messages, type) == Occurrences(messages, type)

\* how far the loop of _process_shkvarkas has come in pending_shkvarkas
LoopPositions ==
    UNION {{tasks[t].stack[k].v.i - 1
              : k \in {j \in 1..Len(tasks[t].stack) :
                         tasks[t].stack[j].fn = "process_shkvarkas"}}
             : t \in DOMAIN tasks}

\* the event cards still to be handled: in the deck, or pending and not
\* yet reached by the loop
EventCardsToHandle ==
    Len(Events(deck)) + Len(pending_shkvarkas)
      - (IF LoopPositions = {} THEN 0 ELSE CHOOSE n \in LoopPositions : TRUE)

\* the event cards whose handling ended in the step
HandledIn(e) ==
    LET Test(r) == r.flow = "shkvarka"
        rs == SelectSeq(e.resolved, Test)
    IN  [k \in 1..Len(rs) |-> rs[k].offered[1]]

C26_HandWithinLimitAtAdvance ==
    [][ \A i \in 1..Len(event'.returned) :
          (event'.returned[i].ok /\ current_player_index' # current_player_index) =>
             /\ Len(player_hands'[event'.returned[i].player])
                   <= game_settings'.player_hand_limit
             /\ \A k \in 1..Len(event'.resolved) :
                   event'.resolved[k].flow = "hand_limit" =>
                      Range(event'.resolved[k].selected) \subseteq Range(discard_pile')
      ]_vars

\* C27: current_player_index changes only in a step in which a move returns
\* success, by one modulo the number of players and with turn_state
\* NORMAL_TURN; a move that fails, a free market refresh and a paprika leave
\* it unchanged, and no hand-limit discard and no recipe completion happens
\* in them.
PlayedPaprika(p) ==
    /\ event'.action = PLAY_SPECIAL
    /\ \E c \in Range(player_hands[p]) \ Range(player_hands'[p]) : CardId(c) = "paprika"

C27_TurnAdvance ==
    [][ /\ current_player_index' # current_player_index =>
              /\ \E i \in 1..Len(event'.returned) : event'.returned[i].ok
              /\ current_player_index' = (current_player_index + 1) % Len(players)
              /\ turn_state' = NORMAL_TURN
        /\ \A i \in 1..Len(event'.returned) :
              ( \/ ~event'.returned[i].ok
                \/ event'.kind = "move" /\ event'.action = FREE_MARKET_REFRESH
                \/ event'.kind = "move" /\ PlayedPaprika(event'.returned[i].player) )
              => /\ current_player_index' = current_player_index
                 /\ \A k \in 1..Len(event'.resolved) :
                       event'.resolved[k].flow # "hand_limit"
                 /\ first_finisher' = first_finisher
      ]_vars

\* C28: a target of the chili pepper who holds enough sour creams is asked;
\* when the answer is use_defense, that many sour creams go from the hand
\* to the discard pile and nothing else of the target changes; when the
\* target declines, does not answer in time or holds too few, no sour cream
\* leaves the hand and the target card leaves the borsht.
SourCreams(q) == LET Test(x) == CardId(x) = "sour_cream" IN SelectSeq(q, Test)
OtherCards(q) ==
    LET Test(x) == CardId(x) \notin {"sour_cream", "chili_pepper"} IN SelectSeq(q, Test)
CanDefend(q) == Len(SourCreams(player_hands[q])) >= game_settings.smetana_count_for_defence
ChiliPlayed ==
    /\ event'.kind = "move"
    /\ Len(game_messages') > Len(game_messages)
    /\ game_messages'[Len(game_messages) + 1] = "special_effect"
DefenseAsked(q) ==
    \E rid \in event'.created :
        /\ rid \in DOMAIN pending_requests'
        /\ pending_requests'[rid].type = "defense_request"
        /\ pending_requests'[rid].player = q
EffectApplied(q) == Len(player_borsht'[q]) < Len(player_borsht[q])

C28_SourCreamDefense ==
    [][ /\ ChiliPlayed =>
              \A q \in Range(players) :
                 /\ DefenseAsked(q) => CanDefend(q) /\ UNCHANGED <<player_hands, player_borsht>>
                 /\ EffectApplied(q) =>
                       /\ ~CanDefend(q)
                       /\ SourCreams(player_hands'[q]) = SourCreams(player_hands[q])
        /\ ( /\ event'.kind \in {"respond", "timeout"}
             /\ event'.request.type = "defense_request" ) =>
              LET q == event'.request.player
                  n == game_settings.smetana_count_for_defence
                  used == event'.response.use_defense /\ ~event'.response.timed_out
              IN  /\ OtherCards(player_hands'[q]) = OtherCards(player_hands[q])
                  /\ used =>
                        /\ SourCreams(player_hands'[q]) = SubSeq(SourCreams(player_hands[q]), n + 1,
                                                                 Len(SourCreams(player_hands[q])))
                        /\ \A i \in 1..n :
                              SourCreams(player_hands[q])[i] \in Range(discard_pile')
                        /\ player_borsht'[q] = player_borsht[q]
                  /\ ~used =>
                        /\ SourCreams(player_hands'[q]) = SourCreams(player_hands[q])
                        /\ EffectApplied(q)
      ]_vars

\* the target used the defence with two sour creams
C28_Witness ==
    /\ event.kind = "respond"
    /\ event.request.type = "defense_request"
    /\ event.response.use_defense
    /\ game_settings.smetana_count_for_defence = 2
    /\ Len(SourCreams(discard_pile)) = 2

\* C29 as stated: while the handler of a standing event card runs, no card
\* leaves a hand, the market or a borsht.
StandingHandlerRuns ==
    \E t \in DOMAIN tasks : \E k \in 1..Len(tasks[t].stack) :
        /\ tasks[t].stack[k].fn = "shkvarka"
        /\ CardSubtype(tasks[t].stack[k].v.card) = "permanent"

RuleValues(active) ==
    [StandingSettings EXCEPT
       !.market_exchange_tax = IF 22 \in active THEN 1 ELSE @,
       !.player_hand_limit = IF 19 \in active THEN 4 ELSE @,
       !.market_capacity = IF 20 \in active THEN @ - 2 ELSE @,
       !.chili_pepper_discard_count = IF 23 \in active THEN 2 ELSE @,
       !.smetana_count_for_defence = IF 21 \in active THEN 2 ELSE @,
       !.extra_cards_allowed = IF 24 \in active THEN FALSE ELSE @]

Registered == Range(active_shkvarkas') \ Range(active_shkvarkas)

ExtraCards(q) == LET Test(x) == CardType(x) = "extra" IN SelectSeq(q, Test)

C31_GameOverRevealsAll ==
    is_game_over =>
       \A p \in Range(players) :
          /\ \A q \in Range(players) \ {p} :
                "recipe" \in DOMAIN GetState(State, p).players[q]
          /\ \E field \in DOMAIN GetState(State, p) : field \in {"scores", "final_scores"}

\* C32: GAME_ENDED is broadcast at most once in a session (fn_in counts the
\* broadcasts of the session so far).
C32_GameEndedOncePerSession == fn_in <= 1

\* C32, in one running instance: get_game_stats returns the error value
\* while the game is not over; GAME_ENDED is broadcast, with the stats and
\* not the error value, by the step in which is_game_over becomes true,
\* once, and by no other step.
C32_GameEndedOnce ==
    [][ /\ (event'.kind = "get_game_stats" /\ ~is_game_over)
              => fn_out' = [error |-> "Game is not yet complete"]
        /\ Len(event'.ended) = (IF ~is_game_over /\ is_game_over' THEN 1 ELSE 0)
        /\ \A i \in 1..Len(event'.ended) :
              /\ "error" \notin DOMAIN event'.ended[i]
              /\ event'.ended[i] = GetGameStats(State)' ]_vars

\* C32 happens: the game has ended and a later move has been answered
C32_Witness ==
    /\ is_game_over
    /\ event.kind = "move"
    /\ event.ended = <<>>
    /\ event.returned # <<>>

\* C33: the end of the game is absorbing: once is_game_over is set, every
\* process_move, by any player and with any action, is rejected and changes
\* no component of the session, and is_game_over and winner never change.
C33_GameOverAbsorbing ==
    [][ is_game_over =>
          /\ is_game_over'
          /\ winner' = winner
          /\ event'.kind = "move" =>
                /\ UNCHANGED session_vars
                /\ UNCHANGED tasks
                /\ Len(event'.returned) = 1
                /\ ~event'.returned[1].ok
                /\ event'.returned[1].player = event'.player
                /\ event'.notified = {event'.player} ]_vars

\* C33 happens: the player on turn has sent a move after the end of the game
C33_Witness ==
    /\ is_game_over
    /\ event.kind = "move"
    /\ event.player = CurrentPlayerId
    /\ event.returned # <<>>
    /\ event.returned[1].err = "Game is already over"

\* C34: _check_recipe_completion reports a player complete exactly when the
\* regular and rare cards of the borsht, and vinnik_lard, are at least as
\* many as the ingredients of the recipe; a borsht of exactly one card of
\* each ingredient of the recipe is complete, and without any one of its
\* cards it is not.
C34_RecipeCompletion ==
    event.kind = "check_recipe_completion" =>
       LET b == player_borsht[fn_in]
           ingredients == RecipeIngredients(player_recipes[fn_in])
           qualifying == {i \in 1..Len(b) : \/ CardType(b[i]) \in {"regular", "rare"}
                                            \/ CardId(b[i]) = "vinnik_lard"}
       IN  /\ fn_out.complete <=> Cardinality(qualifying) >= Cardinality(ingredients)
           /\ (Len(b) = Cardinality(ingredients) /\ IdsOf(b) = ingredients)
                 => /\ fn_out.complete
                    /\ \A i \in 1..Len(b) : ~fn_out.without[i]

\* C34 happens: the borsht holds one card of each of the three ingredients
C34_Witness ==
    /\ event.kind = "check_recipe_completion"
    /\ Len(player_borsht[fn_in]) = 3
    /\ IdsOf(player_borsht[fn_in]) = RecipeIngredients(player_recipes[fn_in])
    /\ fn_out.complete
    /\ \A i \in 1..3 : ~fn_out.without[i]

\* C35: the final score of a player, in _determine_winner, in
\* calculate_scores and in the stats, is the points of the cards of the
\* borsht, plus the bonus of the highest level of the recipe that the
\* completion count reaches (0 if none), plus 2 for the first finisher; the
\* completion count is the count that decides the completion of the
\* recipe, so that a complete player has the bonus of the top level.
C35_FinalScore ==
    is_game_over =>
       \A p \in Range(players) :
          LET b == player_borsht[p]
              levels == Recipes[player_recipes[p]].levels
              count == Cardinality({i \in 1..Len(b) :
                                      \/ CardType(b[i]) \in {"regular", "rare"}
                                      \/ CardId(b[i]) = "vinnik_lard"})
              met == {i \in 1..Len(levels) : levels[i][1] <= count}
              bonus == IF met = {} THEN 0
                       ELSE levels[CHOOSE i \in met : \A j \in met : j <= i][2]
              score == SumPoints(b) + bonus + (IF p = first_finisher THEN 2 ELSE 0)
              stats == GetGameStats(State)
          IN  /\ FinalScore(State, p) = score
              /\ stats.scores[p] = score
              /\ stats.player_stats[p].total_score = score
              /\ stats.player_stats[p].recipe_bonus = bonus
              /\ CheckRecipeCompletion(State, p) => bonus = levels[Len(levels)][2]

\* C36: the step that ends the selection of olive oil moves exactly
\* olive_oil_select_count of the cards looked at to the hand of the player
\* and puts the other cards looked at back on top of the deck; the cards
\* of the deck below them stay in the deck, in their order.
C36_OliveOilFrame ==
    [][ \A k \in 1..Len(event'.resolved) :
          ( /\ event'.kind \in {"respond", "timeout"}
            /\ event'.request.type = "olive_oil_selection"
            /\ event'.resolved[k].flow = "selection" )
          => LET e == event'.resolved[k]
                 p == event'.request.player
             IN  /\ Len(e.selected) = game_settings.olive_oil_select_count
                 /\ Range(e.selected) \cup Range(e.remaining) = Range(e.offered)
                 /\ Len(e.selected) + Len(e.remaining) = Len(e.offered)
                 /\ Range(player_hands'[p]) \ Range(player_hands[p]) = Range(e.selected)
                 /\ deck' = e.remaining \o deck ]_vars

\* C37: no borsht ever holds two cards of the same ingredient id.
C37_NoDuplicateIngredient ==
    \A p \in Range(players) :
       \A i, j \in 1..Len(player_borsht[p]) :
          i # j => CardId(player_borsht[p][i]) # CardId(player_borsht[p][j])

\* C37 happens: a chili pepper has stolen two cards, an onion that the
\* thief has already and a carrot that the thief has not
C37_Witness ==
    /\ event.kind = "steal"
    /\ event.returned # <<>>
    /\ event.returned[1].ok
    /\ event.action = PLAY_SPECIAL
    /\ Len(player_borsht[2]) = 1
    /\ 16 \in Range(player_borsht[1])
    /\ 2 \in Range(discard_pile)

\* C38: every regular or rare card of a borsht is an ingredient of the
\* recipe of its player.
C38_TableauWithinRecipe ==
    \A p \in Range(players) :
       \A i \in 1..Len(player_borsht[p]) :
          CardType(player_borsht[p][i]) \in {"regular", "rare"}
             => CardId(player_borsht[p][i]) \in RecipeIngredients(player_recipes[p])

\* C39: a successful paprika leaves the same player on turn in
\* WAITING_FOR_EXCHANGE; a skip or an exchange of that player then ends the
\* turn (next player, NORMAL_TURN) when it succeeds, and leaves the same
\* player in WAITING_FOR_EXCHANGE when it fails.
C39_PaprikaExchange ==
    [][ \A i \in 1..Len(event'.returned) :
          LET r == event'.returned[i]
              SamePlayer == current_player_index' = current_player_index
              NextPlayerOn ==
                  /\ current_player_index' = (current_player_index + 1) % Len(players)
                  /\ turn_state' = NORMAL_TURN
              FromExchange ==
                  \/ /\ event'.kind = "move"
                     /\ turn_state = WAITING_FOR_EXCHANGE
                     /\ event'.action \in {SKIP, EXCHANGE_INGREDIENTS}
                  \/ /\ event'.kind \in {"respond", "timeout"}
                     /\ \E k \in 1..Len(event'.resolved) :
                           /\ event'.resolved[k].flow = "hand_limit"
                           /\ event'.resolved[k].entry = WAITING_FOR_EXCHANGE
          IN  /\ (event'.kind = "move" /\ r.ok /\ PlayedPaprika(r.player))
                    => SamePlayer /\ turn_state' = WAITING_FOR_EXCHANGE
              /\ (FromExchange /\ r.player = CurrentPlayerId /\ r.ok) => NextPlayerOn
              /\ (FromExchange /\ r.player = CurrentPlayerId /\ ~r.ok)
                    => SamePlayer /\ turn_state' = WAITING_FOR_EXCHANGE ]_vars

\* C10: whenever a process_move is in flight, eventually every
\* process_move has returned.
C10_MovesReturn == (tasks # <<>>) ~> (tasks = <<>>)

====
